---- MODULE Spec2Model ----
(***************************************************************************)
(* The scatter worker of klados-examples (processJob and                   *)
(* processExistingCopies) as a state machine: one job talks to the remote  *)
(* entity store through awaited calls; every action is one continuation of *)
(* the async function, i.e. the code that runs between two awaits, or one  *)
(* response of the store.                                                  *)
(***************************************************************************)
EXTENDS Integers, Sequences, FiniteSets, TLC

\* ------------------------------------------------------------------------
\* Program constants
\* ------------------------------------------------------------------------
DEFAULT_COPY_COUNT == 3
BATCH_SIZE == 20

\* ------------------------------------------------------------------------
\* Bounds of the model
\* ------------------------------------------------------------------------
\* How far a response may overtake: a request is answered while requests
\* issued at most this many places before it are still in flight.
MaxOvertake == 2
\* Store calls answered with an error in one behaviour.
MaxFaults == 1
\* Writes to the target made by other clients in one behaviour.
MaxOtherWrites == 1
\* The largest copy count (and number of pre-existing copies) tried: one
\* full batch and two more, so that a second batch exists.
BigCount == 22
\* The largest index a request of a job can have: an index of the copies
\* wanted, or of the has_copy relationships of a target that other clients
\* have added to
MaxIndex == BigCount + MaxOtherWrites

\* ------------------------------------------------------------------------
\* JavaScript values of a property bag.  Each type has its own field name,
\* so two values of different types are unequal records.
\* ------------------------------------------------------------------------
Undefined == [undef |-> TRUE]
Num(n) == [num |-> n]
\* A string is the sequence of its pieces, so that a template literal is a
\* concatenation: Str(<<"Doc">>), Str(<<"Doc", " - Copy ", "1">>)
Str(s) == [str |-> s]
IdVal(id) == [id |-> id]
Bool(b) == [bool |-> b]
NaN == [nan |-> TRUE]
\* An array is the sequence of its elements
Arr(s) == [arr |-> s]

IsNum(v) == "num" \in DOMAIN v
IsStr(v) == "str" \in DOMAIN v
IsBool(v) == "bool" \in DOMAIN v
\* Array.isArray(v)
IsArray(v) == "arr" \in DOMAIN v

\* v === true
StrictTrue(v) == IsBool(v) /\ v.bool

\* ToBoolean(v), as used by || and &&
Truthy(v) ==
  CASE IsNum(v) -> v.num # 0
    [] IsStr(v) -> v.str # << >>
    [] IsBool(v) -> v.bool
    [] IsArray(v) -> TRUE
    [] OTHER -> FALSE

\* a || b
OrElse(a, b) == IF Truthy(a) THEN a ELSE b

\* ToNumber(v) for the relational operator < and Math.min: none of the
\* strings tried is a numeric literal, so a string converts to NaN.
ToNumber(v) ==
  CASE IsNum(v) -> v
    [] IsBool(v) -> Num(IF v.bool THEN 1 ELSE 0)
    [] OTHER -> NaN

\* a < b with a a number: a comparison with NaN is false
LessThan(a, v) == IsNum(ToNumber(v)) /\ a < ToNumber(v).num

\* Variant of Min: the larger one.
Max(a, b) == IF a < b THEN b ELSE a

Min(a, b) == IF a < b THEN a ELSE b

\* ------------------------------------------------------------------------
\* The entity store
\* ------------------------------------------------------------------------
\* Job 1 is invoked on the target; the other jobs are later invocations: of
\* the next step of a workflow, or of the same worker on the same target.
Jobs == {1, 2, 3, 4}

TargetId == <<"target", 0, 0>>
PeerId(p) == <<"peer", 0, p>>
OtherId == <<"other", 0, 0>>
\* The id the store gives to the record created by request i of job j
NewId(j, i) == <<"copy", j, i>>

TargetType == "test_entity"
AgentId == "scatter-agent"
Now == "now"

Rel(predicate, peer, peer_type, peer_label) ==
  [predicate |-> predicate, peer |-> peer, peer_type |-> peer_type,
   peer_label |-> peer_label]

NoProperties ==
  [label |-> Undefined, copy_count |-> Undefined, mix_entity_class |-> Undefined,
   use_existing_copies |-> Undefined, entity_class |-> Undefined,
   copy_index |-> Undefined, copy_total |-> Undefined,
   source_entity |-> Undefined, created_by |-> Undefined,
   created_at |-> Undefined, stamps |-> Undefined, stamp_count |-> Undefined]

VARIABLES
  entities,      \* the store: id -> [type, properties, relationships, cid]
  faults,        \* error responses given so far
  otherWrites,   \* writes of other clients so far
  pc,            \* per job: where processJob is suspended
  target,        \* per job: the result of fetchTarget
  batchStart,    \* per job: loop variable of the batch loop
  batchPromises, \* per job: index -> "pending" or the settled result
  copies,        \* per job: the results pushed so far
  entityWithRels, \* per job: the target as re-fetched with its relationships
  tipData,       \* per job: the tip read before the update
  outputs,       \* per job: the returned outputs
  log,           \* per job: the messages of job.log
  inflight,      \* per job: requests the store has not answered yet
  reordered,     \* per job: some response has overtaken an older request
  calls,         \* per job: the requests issued so far, by operation
  response       \* per job: the response of POST /process, once returned

vars == <<entities, faults, otherWrites, pc, target, batchStart, batchPromises,
          copies, entityWithRels, tipData, outputs, log, inflight, reordered,
          calls, response>>

\* ------------------------------------------------------------------------
\* processJob: the pure parts
\* ------------------------------------------------------------------------
\* Variant of UseExistingCopies: the flag is not read.
UseExistingCopiesIgnored(t) == FALSE

UseExistingCopies(t) == StrictTrue(t.properties.use_existing_copies)

MixEntityClass(t) == StrictTrue(t.properties.mix_entity_class)

NumCopies(t) == OrElse(t.properties.copy_count, Num(DEFAULT_COPY_COUNT))

\* Variant of CopyLabel: the index as it is.
CopyLabelZeroBased(t, i) ==
  Str(OrElse(t.properties.label, Str(<<"Entity">>)).str
      \o <<" - Copy ", ToString(i)>>)

\* `${target.properties.label || 'Entity'} - Copy ${i + 1}`
CopyLabel(t, i) ==
  Str(OrElse(t.properties.label, Str(<<"Entity">>)).str
      \o <<" - Copy ", ToString(i + 1)>>)

\* Variant of EntityClass: the classes the other way round.
EntityClassSwapped(t, i) ==
  IF MixEntityClass(t)
    THEN (IF i % 2 = 0 THEN Str(<<"mention">>) ELSE Str(<<"canonical">>))
    ELSE Undefined

EntityClass(t, i) ==
  IF MixEntityClass(t)
    THEN (IF i % 2 = 0 THEN Str(<<"canonical">>) ELSE Str(<<"mention">>))
    ELSE Undefined

\* Variant of CopyProperties: the properties of the target are not spread
\* into the copy.
CopyPropertiesWithoutSpread(t, i) ==
  [NoProperties EXCEPT
     !.label = CopyLabel(t, i),
     !.copy_index = Num(i),
     !.copy_total = NumCopies(t),
     !.source_entity = IdVal(t.id),
     !.created_by = Str(<<AgentId>>),
     !.created_at = Str(<<Now>>),
     !.entity_class = IF Truthy(EntityClass(t, i)) THEN EntityClass(t, i) ELSE @]

\* The properties of the body of POST /entities for index i
CopyProperties(t, i) ==
  [t.properties EXCEPT
     !.label = CopyLabel(t, i),
     !.copy_index = Num(i),
     !.copy_total = NumCopies(t),
     !.source_entity = IdVal(t.id),
     !.created_by = Str(<<AgentId>>),
     !.created_at = Str(<<Now>>),
     !.entity_class = IF Truthy(EntityClass(t, i)) THEN EntityClass(t, i) ELSE @]

\* Variant of CopyOfRelationships: the copy is created without relationship.
NoRelationships(t) == << >>

\* The relationships of the body of POST /entities
CopyOfRelationships(t) ==
  << Rel("copy_of", t.id, t.type, t.properties.label) >>

\* What the .then callback of a creation returns
CreatedResult(t, id, i) == [id |-> id, entity_class |-> EntityClass(t, i)]

\* Variant of FetchedResult: the class of the peer whatever mixEntityClass.
FetchedResultAlwaysTagged(t, data) ==
  [id |-> data.id, entity_class |-> data.properties.entity_class]

\* What the .then callback of a peer fetch returns
FetchedResult(t, data) ==
  [id |-> data.id,
   entity_class |-> IF MixEntityClass(t) THEN data.properties.entity_class
                    ELSE Undefined]

\* Variant of HasCopyRelationships: each relationship names the record of
\* the next index.
HasCopyRelationshipsShifted(t, cs) ==
  [k \in 1..Len(cs) |->
     Rel("has_copy", <<cs[k].id[1], cs[k].id[2], cs[k].id[3] + 1>>, t.type,
         CopyLabel(t, k - 1))]

\* Variant of HasCopyRelationships: the label counts from zero.
HasCopyRelationshipsZeroBased(t, cs) ==
  [k \in 1..Len(cs) |->
     Rel("has_copy", cs[k].id, t.type, CopyLabelZeroBased(t, k - 1))]

\* relationships_add of the PUT
HasCopyRelationships(t, cs) ==
  [k \in 1..Len(cs) |->
     Rel("has_copy", cs[k].id, t.type, CopyLabel(t, k - 1))]

\* Variant of CopyRelationshipsOf: no filter on the predicate.
AllRelationshipsOf(e) == e.relationships

\* The has_copy relationships of the re-fetched target
CopyRelationshipsOf(e) ==
  SelectSeq(e.relationships, LAMBDA r : r.predicate = "has_copy")

\* One output: the tagged object when the copy has a class, else the id
\* alone (the record with the single field plain).
OutputOf(copy) ==
  IF Truthy(copy.entity_class)
    THEN [entity_id |-> copy.id, entity_class |-> copy.entity_class]
    ELSE [plain |-> copy.id]

\* The id an output carries
OutputId(o) == IF "plain" \in DOMAIN o THEN o.plain ELSE o.entity_id

\* Variant of Outputs: the outputs in the reverse order.
OutputsReversed(cs) == [k \in 1..Len(cs) |-> OutputOf(cs[Len(cs) + 1 - k])]

Outputs(cs) == [k \in 1..Len(cs) |-> OutputOf(cs[k])]

\* ------------------------------------------------------------------------
\* Promises of one batch
\* ------------------------------------------------------------------------
Pending == [state |-> "pending"]
Fulfilled(v) == [state |-> "fulfilled", value |-> v]
Rejected == [state |-> "rejected"]

\* Variant of Settle: the outcome is stored in the first free place, in
\* order of arrival.
SettleInArrivalOrder(promises, i, outcome) ==
  LET first == CHOOSE k \in DOMAIN promises :
                 /\ promises[k].state = "pending"
                 /\ \A m \in DOMAIN promises : promises[m].state = "pending" => k <= m
  IN [promises EXCEPT ![first] = outcome]

\* The promise of index i settles; Promise.all keeps each result at the
\* position of its promise.
Settle(promises, i, outcome) == [promises EXCEPT ![i] = outcome]

\* Promise.all(batchPromises) resolves
AllFulfilled(promises) ==
  \A i \in DOMAIN promises : promises[i].state = "fulfilled"

\* The value Promise.all resolves to, for the batch that starts at start
BatchResults(promises, start) ==
  [k \in 1..Cardinality(DOMAIN promises) |-> promises[start + k - 1].value]

\* Variant of BatchIndices: everything that is left, in one batch.
BatchIndicesAll(start, n) == start .. (n - 1)

\* The indices of the batch that starts at start, for a loop bound n
BatchIndices(start, n) == start .. (Min(start + BATCH_SIZE, n) - 1)

\* ------------------------------------------------------------------------
\* Initial states
\* ------------------------------------------------------------------------
\* The entity a job is invoked on (job.request.target_entity)
TargetOf(j) == target[j].id

NoTarget == [id |-> TargetId, type |-> "", properties |-> NoProperties]
NoEntity == [id |-> TargetId, type |-> "", properties |-> NoProperties,
             relationships |-> << >>, cid |-> 0]
NoCalls == [post |-> {}, get |-> {}, refetch |-> 0, tip |-> 0, put |-> 0]

\* POST /process has not answered yet
NoResponse == [pending |-> TRUE]

\* job.acceptResponse: made by KladosJob.accept from the request alone
AcceptResponse(j) == [accepted |-> TRUE, job_id |-> j]

\* Variant of Accept: the handler awaits job.run before it answers.
AcceptAndAwait(j) ==
  /\ pc' = [pc EXCEPT ![j] = "fetchTarget"]
  /\ UNCHANGED response

\* POST /process: the job is accepted, job.run(processJob) is handed to
\* waitUntil without being awaited, and the acceptance response is returned
Accept(j) ==
  /\ pc' = [pc EXCEPT ![j] = "fetchTarget"]
  /\ response' = [response EXCEPT ![j] = AcceptResponse(j)]

\* A record that a client created beforehand as copy number p (1-based) of
\* the target: classes alternate, and every third one has no class.
PeerEntity(p) ==
  [id |-> PeerId(p), type |-> TargetType,
   properties |->
     [NoProperties EXCEPT
        !.label = Str(<<"Copy ", ToString(p)>>),
        !.copy_index = Num(p - 1),
        !.source_entity = IdVal(TargetId),
        !.entity_class = IF p % 3 = 0 THEN Undefined
                         ELSE IF p % 2 = 1 THEN Str(<<"canonical">>)
                         ELSE Str(<<"mention">>)],
   relationships |-> << >>, cid |-> 1]

OtherEntity ==
  [id |-> OtherId, type |-> TargetType,
   properties |-> [NoProperties EXCEPT !.label = Str(<<"Other">>)],
   relationships |-> << >>, cid |-> 1]

\* The relationships of a target that already has n copies: one
\* relationship of another kind, then one has_copy per copy.
TargetRelationships(n) ==
  << Rel("in_collection", OtherId, "collection", Str(<<"Other">>)) >>
  \o [p \in 1..n |->
        Rel("has_copy", PeerId(p), TargetType, Str(<<"Copy ", ToString(p)>>))]

\* The targets tried: property bags and numbers of pre-existing copies
SmallCounts == {Undefined, Num(0), Num(2), Num(-1), Str(<<"many">>)}
Flags == {Undefined, Bool(FALSE), Bool(TRUE), Str(<<"true">>)}
Labels == {Undefined, Str(<<"Doc">>)}

TargetProperties(count, mix, existing, label, class) ==
  [NoProperties EXCEPT
     !.copy_count = count, !.mix_entity_class = mix,
     !.use_existing_copies = existing, !.label = label,
     !.entity_class = class]

Targets ==
  \* generation with small counts, every flag and label
  { [properties |-> TargetProperties(c, m, Undefined, l, Undefined), peers |-> 0] :
      c \in SmallCounts, m \in Flags, l \in Labels }
  \* generation from a target that has a class of its own, or whose
  \* use_existing_copies is not the boolean true
  \cup { [properties |-> TargetProperties(Num(2), m, e, Undefined, Str(<<"canonical">>)),
          peers |-> 2] :
      m \in {Bool(FALSE), Bool(TRUE)}, e \in {Bool(FALSE), Str(<<"true">>)} }
  \* generation of more than one batch
  \cup { [properties |-> TargetProperties(Num(BigCount), Bool(TRUE), Undefined,
                                          Str(<<"Doc">>), Undefined),
          peers |-> 0] }
  \* existing copies
  \cup { [properties |-> TargetProperties(c, m, Bool(TRUE), Str(<<"Doc">>), Undefined),
          peers |-> n] :
      c \in {Undefined, Num(2)}, m \in {Bool(FALSE), Bool(TRUE)}, n \in {0, 2} }
  \cup { [properties |-> TargetProperties(Num(2), Bool(TRUE), Bool(TRUE), Str(<<"Doc">>), Undefined),
          peers |-> BigCount] }

InitStore(t) ==
  (TargetId :> [id |-> TargetId, type |-> TargetType, properties |-> t.properties,
                relationships |-> TargetRelationships(t.peers), cid |-> 1])
  @@ (OtherId :> OtherEntity)
  @@ [id \in {PeerId(p) : p \in 1..t.peers} |-> PeerEntity(id[3])]

\* The jobs in `started` have been accepted and are about to run
InitWith(started, targets) ==
  /\ \E t \in targets : entities = InitStore(t)
  /\ faults = 0
  /\ otherWrites = 0
  /\ pc = [j \in Jobs |-> IF j \in started THEN "fetchTarget" ELSE "idle"]
  /\ target = [j \in Jobs |-> NoTarget]
  /\ batchStart = [j \in Jobs |-> 0]
  /\ batchPromises = [j \in Jobs |-> << >>]
  /\ copies = [j \in Jobs |-> << >>]
  /\ entityWithRels = [j \in Jobs |-> NoEntity]
  /\ tipData = [j \in Jobs |-> [cid |-> 0]]
  /\ outputs = [j \in Jobs |-> << >>]
  /\ log = [j \in Jobs |-> << >>]
  /\ inflight = [j \in Jobs |-> {}]
  /\ reordered = [j \in Jobs |-> FALSE]
  /\ calls = [j \in Jobs |-> NoCalls]
  /\ response = [j \in Jobs |-> IF j \in started THEN AcceptResponse(j)
                                                ELSE NoResponse]

Init == InitWith({1}, Targets)

\* ------------------------------------------------------------------------
\* The store answers
\* ------------------------------------------------------------------------
\* The store may answer request i of job j now: every older request of the
\* job still in flight was issued at most MaxOvertake places before it.
MayAnswer(j, i) ==
  /\ i \in inflight[j]
  /\ \A k \in inflight[j] : i - k <= MaxOvertake

\* Request i of job j is answered
Answered(j, i) ==
  /\ inflight' = [inflight EXCEPT ![j] = @ \ {i}]
  /\ reordered' = [reordered EXCEPT ![j] = @ \/ \E k \in inflight[j] : k < i]

MayFail == faults < MaxFaults

\* POST /entities: the record the store creates
CreatedEntity(id, type, properties, relationships) ==
  [id |-> id, type |-> type, properties |-> properties,
   relationships |-> relationships, cid |-> 1]

\* PUT /entities/{id} with expect_tip and relationships_add: applied only
\* when the tip presented is the current one
TipMatches(e, expect_tip) == e.cid = expect_tip

AddRelationships(e, rels) ==
  [e EXCEPT !.relationships = @ \o rels, !.cid = @ + 1]

\* The properties of e with those of the patch written over them
MergeProperties(properties, patch) ==
  [k \in DOMAIN properties |->
     IF k \in DOMAIN patch THEN patch[k] ELSE properties[k]]

\* PUT /entities/{id}: the relationships of relationships_add are appended,
\* the properties of the body, if it has any, are written over the record's
ApplyUpdate(e, body) ==
  LET e1 == AddRelationships(e, IF "relationships_add" \in DOMAIN body
                                  THEN body.relationships_add ELSE << >>) IN
  IF "properties" \in DOMAIN body
    THEN [e1 EXCEPT !.properties = MergeProperties(@, body.properties)]
    ELSE e1

\* ------------------------------------------------------------------------
\* job.log
\* ------------------------------------------------------------------------
Info(message) == [level |-> "info", message |-> message, batch |-> 0, copyIds |-> << >>]
InfoBatch(message, start) ==
  [level |-> "info", message |-> message, batch |-> (start \div BATCH_SIZE) + 1,
   copyIds |-> << >>]
\* Variant of Success: the ids in the reverse order.
SuccessReversed(message, cs) ==
  [level |-> "success", message |-> message, batch |-> 0,
   copyIds |-> [k \in 1..Len(cs) |-> cs[Len(cs) + 1 - k].id]]

Success(message, cs) ==
  [level |-> "success", message |-> message, batch |-> 0,
   copyIds |-> [k \in 1..Len(cs) |-> cs[k].id]]

\* ------------------------------------------------------------------------
\* processJob, generation
\* ------------------------------------------------------------------------
\* Variant of Throw: the error is swallowed.
Swallow(j) == UNCHANGED pc

\* The error thrown inside processJob rejects it
Throw(j) == pc' = [pc EXCEPT ![j] = "failed"]

\* The head of the batch loop for batchStart = start: either the requests of
\* the batch are all issued and the job awaits Promise.all, or the loop is
\* over and the tip of the target is requested.
EnterBatch(j, t, start) ==
  /\ batchStart' = [batchStart EXCEPT ![j] = start]
  /\ IF LessThan(start, NumCopies(t))
       THEN LET batch == BatchIndices(start, ToNumber(NumCopies(t)).num) IN
            /\ batchPromises' = [batchPromises EXCEPT ![j] = [i \in batch |-> Pending]]
            /\ inflight' = [inflight EXCEPT ![j] = @ \cup batch]
            /\ calls' = [calls EXCEPT ![j].post = @ \cup batch]
            /\ pc' = [pc EXCEPT ![j] = "createBatch"]
       ELSE /\ calls' = [calls EXCEPT ![j].tip = @ + 1]
            /\ pc' = [pc EXCEPT ![j] = "getTip"]
            /\ UNCHANGED <<batchPromises, inflight>>

\* Variant of Return: the job starts over instead of returning.
ReturnAndRestart(j, cs) ==
  /\ outputs' = [outputs EXCEPT ![j] = Outputs(cs)]
  /\ pc' = [pc EXCEPT ![j] = "fetchTarget"]

\* The outputs are returned
Return(j, cs) ==
  /\ outputs' = [outputs EXCEPT ![j] = Outputs(cs)]
  /\ pc' = [pc EXCEPT ![j] = "done"]

\* The tail of processJob after the messages `before`: the success message
\* is logged and the outputs are returned
Complete(j, cs, before) ==
  /\ log' = [log EXCEPT ![j] = @ \o before \o << Success("Scatter complete", cs) >>]
  /\ Return(j, cs)

\* Variant of BacklinkFailed: the failure is logged and thrown.
BacklinkFailedThrows(j, message) ==
  /\ log' = [log EXCEPT ![j] = Append(@, Info(message))]
  /\ Throw(j)
  /\ UNCHANGED <<outputs, calls>>

\* Variant of BacklinkFailed: the failure is logged and the step is tried
\* again from the tip read.
BacklinkFailedRetries(j, message) ==
  /\ log' = [log EXCEPT ![j] = Append(@, Info(message))]
  /\ calls' = [calls EXCEPT ![j].tip = @ + 1]
  /\ pc' = [pc EXCEPT ![j] = "getTip"]
  /\ UNCHANGED outputs

\* The back-link step has failed: the failure is logged and the job goes on
\* to its tail
BacklinkFailed(j, message) ==
  /\ Complete(j, copies[j], << Info(message) >>)
  /\ UNCHANGED calls

\* fetchTarget answers; the job runs up to its next await
FetchTargetOk(j) ==
  /\ pc[j] = "fetchTarget"
  /\ LET e == entities[TargetOf(j)]
         t == [id |-> e.id, type |-> e.type, properties |-> e.properties] IN
     /\ target' = [target EXCEPT ![j] = t]
     /\ IF UseExistingCopies(t)
          THEN /\ log' = [log EXCEPT ![j] = @ \o << Info("Scatter worker starting") >>]
               /\ calls' = [calls EXCEPT ![j].refetch = @ + 1]
               /\ pc' = [pc EXCEPT ![j] = "refetch"]
               /\ UNCHANGED <<batchStart, batchPromises, inflight>>
          ELSE /\ log' = [log EXCEPT ![j] = @ \o << Info("Scatter worker starting"),
                                                    Info("Fetched target entity") >>]
               /\ EnterBatch(j, t, 0)
  /\ UNCHANGED <<entities, faults, otherWrites, copies, entityWithRels, tipData,
                 outputs, reordered,
                 response>>

\* fetchTarget fails: processJob throws
FetchTargetFails(j) ==
  /\ pc[j] = "fetchTarget"
  /\ MayFail
  /\ faults' = faults + 1
  /\ Throw(j)
  /\ UNCHANGED <<entities, otherWrites, target, batchStart, batchPromises, copies,
                 entityWithRels, tipData, outputs, log, inflight, reordered, calls,
                 response>>

\* Variant of CreateOk: a record that exists for the same target and index
\* is taken instead of a new one.
CreateOkIdempotent(j, i) ==
  /\ ~UseExistingCopies(target[j])
  /\ MayAnswer(j, i)
  /\ LET t == target[j]
         existing == {id \in DOMAIN entities :
                        /\ id[1] = "copy"
                        /\ entities[id].properties.source_entity = IdVal(t.id)
                        /\ entities[id].properties.copy_index = Num(i)}
         id == IF existing = {} THEN NewId(j, i) ELSE CHOOSE e \in existing : TRUE IN
     /\ entities' = entities @@
          (id :> CreatedEntity(id, t.type, CopyProperties(t, i), CopyOfRelationships(t)))
     /\ batchPromises' = [batchPromises EXCEPT
          ![j] = Settle(@, i, Fulfilled(CreatedResult(t, id, i)))]
  /\ Answered(j, i)
  /\ UNCHANGED <<faults, otherWrites, pc, target, batchStart, copies, entityWithRels,
                 tipData, outputs, log, calls,
                 response>>

\* The store creates the record of request i and the .then callback
\* fulfils the promise
CreateOk(j, i) ==
  /\ ~UseExistingCopies(target[j])
  /\ MayAnswer(j, i)
  /\ LET t == target[j]
         id == NewId(j, i) IN
     /\ entities' = entities @@
          (id :> CreatedEntity(id, t.type, CopyProperties(t, i), CopyOfRelationships(t)))
     /\ batchPromises' = [batchPromises EXCEPT
          ![j] = Settle(@, i, Fulfilled(CreatedResult(t, id, i)))]
  /\ Answered(j, i)
  /\ UNCHANGED <<faults, otherWrites, pc, target, batchStart, copies, entityWithRels,
                 tipData, outputs, log, calls,
                 response>>

\* Variant of CreateFails: the records the job has created are deleted.
CreateFailsRollsBack(j, i) ==
  /\ ~UseExistingCopies(target[j])
  /\ MayAnswer(j, i)
  /\ MayFail
  /\ faults' = faults + 1
  /\ batchPromises' = [batchPromises EXCEPT ![j] = Settle(@, i, Rejected)]
  /\ Answered(j, i)
  /\ Throw(j)
  /\ entities' = [id \in {e \in DOMAIN entities : ~(e[1] = "copy" /\ e[2] = j)}
                    |-> entities[id]]
  /\ UNCHANGED <<otherWrites, target, batchStart, copies, entityWithRels,
                 tipData, outputs, log, calls,
                 response>>

\* The store answers request i with an error: the .then callback throws,
\* Promise.all rejects at once and processJob throws, whatever is still in
\* flight
CreateFails(j, i) ==
  /\ ~UseExistingCopies(target[j])
  /\ MayAnswer(j, i)
  /\ MayFail
  /\ faults' = faults + 1
  /\ batchPromises' = [batchPromises EXCEPT ![j] = Settle(@, i, Rejected)]
  /\ Answered(j, i)
  /\ Throw(j)
  /\ UNCHANGED <<entities, otherWrites, target, batchStart, copies, entityWithRels,
                 tipData, outputs, log, calls,
                 response>>

\* Promise.all resolves: the results are pushed and the loop goes on
BatchCreated(j) ==
  /\ pc[j] = "createBatch"
  /\ AllFulfilled(batchPromises[j])
  /\ copies' = [copies EXCEPT ![j] = @ \o BatchResults(batchPromises[j], batchStart[j])]
  /\ log' = [log EXCEPT ![j] = Append(@, InfoBatch("Created batch", batchStart[j]))]
  /\ EnterBatch(j, target[j], batchStart[j] + BATCH_SIZE)
  /\ UNCHANGED <<entities, faults, otherWrites, target, entityWithRels, tipData,
                 outputs, reordered,
                 response>>

\* GET /entities/{id}/tip answers; the PUT is issued
GetTipOk(j) ==
  /\ pc[j] = "getTip"
  /\ tipData' = [tipData EXCEPT ![j] = [cid |-> entities[target[j].id].cid]]
  /\ calls' = [calls EXCEPT ![j].put = @ + 1]
  /\ pc' = [pc EXCEPT ![j] = "putUpdate"]
  /\ UNCHANGED <<entities, faults, otherWrites, target, batchStart, batchPromises,
                 copies, entityWithRels, outputs, log, inflight, reordered,
                 response>>

\* GET /entities/{id}/tip fails: logged, no update, the job returns
GetTipFails(j) ==
  /\ pc[j] = "getTip"
  /\ MayFail
  /\ faults' = faults + 1
  /\ BacklinkFailed(j, "Failed to get tip for original entity")
  /\ UNCHANGED <<entities, otherWrites, target, batchStart, batchPromises, copies,
                 entityWithRels, tipData, inflight, reordered,
                 response>>

\* Variant of ExpectTip: the tip at the time the PUT is applied.
ExpectTipCurrent(j) == entities[target[j].id].cid

\* expect_tip of the PUT
ExpectTip(j) == tipData[j].cid

\* Variant of PutBody: the update also sets a property of the target.
PutBodyWithProperties(j) ==
  [expect_tip |-> ExpectTip(j),
   relationships_add |-> HasCopyRelationships(target[j], copies[j]),
   properties |-> [copy_total |-> NumCopies(target[j])]]

\* The body of the PUT
PutBody(j) ==
  [expect_tip |-> ExpectTip(j),
   relationships_add |-> HasCopyRelationships(target[j], copies[j])]

\* The store applies the PUT; the job returns
UpdateOk(j) ==
  /\ pc[j] = "putUpdate"
  /\ TipMatches(entities[target[j].id], PutBody(j).expect_tip)
  /\ entities' = [entities EXCEPT ![target[j].id] = ApplyUpdate(@, PutBody(j))]
  /\ Complete(j, copies[j], << >>)
  /\ UNCHANGED <<faults, otherWrites, target, batchStart, batchPromises, copies,
                 entityWithRels, tipData, inflight, reordered, calls,
                 response>>

\* The store rejects the PUT, the tip having moved: logged, the job returns
UpdateConflict(j) ==
  /\ pc[j] = "putUpdate"
  /\ ~TipMatches(entities[target[j].id], PutBody(j).expect_tip)
  /\ BacklinkFailed(j, "Failed to add has_copy relationships to original")
  /\ UNCHANGED <<entities, faults, otherWrites, target, batchStart, batchPromises,
                 copies, entityWithRels, tipData, inflight, reordered,
                 response>>

\* The PUT fails for another reason: logged, the job returns
UpdateError(j) ==
  /\ pc[j] = "putUpdate"
  /\ MayFail
  /\ faults' = faults + 1
  /\ BacklinkFailed(j, "Failed to add has_copy relationships to original")
  /\ UNCHANGED <<entities, otherWrites, target, batchStart, batchPromises, copies,
                 entityWithRels, tipData, inflight, reordered,
                 response>>

\* ------------------------------------------------------------------------
\* processExistingCopies
\* ------------------------------------------------------------------------
\* The head of the fetch loop for batchStart = start, with cs the results
\* pushed so far and `before` the messages to log first: the fetches of the
\* batch are issued, or the loop is over, the success message is logged and
\* the outputs are returned.
EnterFetchBatch(j, rels, start, cs, before) ==
  /\ batchStart' = [batchStart EXCEPT ![j] = start]
  /\ IF start < Len(rels)
       THEN LET batch == BatchIndices(start, Len(rels)) IN
            /\ batchPromises' = [batchPromises EXCEPT ![j] = [i \in batch |-> Pending]]
            /\ inflight' = [inflight EXCEPT ![j] = @ \cup batch]
            /\ calls' = [calls EXCEPT ![j].get = @ \cup batch]
            /\ pc' = [pc EXCEPT ![j] = "fetchBatch"]
            /\ log' = [log EXCEPT ![j] = @ \o before]
            /\ UNCHANGED outputs
       ELSE /\ log' = [log EXCEPT ![j] = @ \o before \o
                 << Success("Scatter complete (using existing copies)", cs) >>]
            /\ Return(j, cs)
            /\ UNCHANGED <<batchPromises, inflight, calls>>

\* Variant of NoCopiesFound: a target without copies is an error.
NoCopiesFoundThrows(j) ==
  /\ log' = [log EXCEPT ![j] = Append(@, Info("No existing copies found"))]
  /\ Throw(j)
  /\ UNCHANGED outputs

\* The target has no has_copy relationship: logged, and the empty sequence
\* is returned
NoCopiesFound(j) ==
  /\ log' = [log EXCEPT ![j] = Append(@, Info("No existing copies found"))]
  /\ Return(j, << >>)

\* GET /entities/{id} of the target answers
RefetchOk(j) ==
  /\ pc[j] = "refetch"
  /\ LET e == entities[target[j].id]
         rels == CopyRelationshipsOf(e) IN
     /\ entityWithRels' = [entityWithRels EXCEPT ![j] = e]
     /\ IF Len(rels) = 0
          THEN /\ NoCopiesFound(j)
               /\ UNCHANGED <<batchStart, batchPromises, inflight, calls>>
          ELSE EnterFetchBatch(j, rels, 0, copies[j], << Info("Using existing copies") >>)
  /\ UNCHANGED <<entities, faults, otherWrites, target, copies, tipData, reordered,
                 response>>

\* Variant of RefetchFails: the failure is taken for a target without copies.
RefetchFailsReturnsEmpty(j) ==
  /\ pc[j] = "refetch"
  /\ MayFail
  /\ faults' = faults + 1
  /\ log' = [log EXCEPT ![j] = Append(@, Info("No existing copies found"))]
  /\ Return(j, << >>)
  /\ UNCHANGED <<entities, otherWrites, target, batchStart, batchPromises, copies,
                 entityWithRels, tipData, inflight, reordered, calls,
                 response>>

\* GET /entities/{id} of the target fails: processExistingCopies throws
RefetchFails(j) ==
  /\ pc[j] = "refetch"
  /\ MayFail
  /\ faults' = faults + 1
  /\ Throw(j)
  /\ UNCHANGED <<entities, otherWrites, target, batchStart, batchPromises, copies,
                 entityWithRels, tipData, outputs, log, inflight, reordered, calls,
                 response>>

\* The peer of relationship i is fetched
PeerFetchOk(j, i) ==
  /\ UseExistingCopies(target[j])
  /\ MayAnswer(j, i)
  /\ LET rel == CopyRelationshipsOf(entityWithRels[j])[i + 1] IN
     /\ rel.peer \in DOMAIN entities
     /\ batchPromises' = [batchPromises EXCEPT
          ![j] = Settle(@, i, Fulfilled(FetchedResult(target[j], entities[rel.peer])))]
  /\ Answered(j, i)
  /\ UNCHANGED <<entities, faults, otherWrites, pc, target, batchStart, copies,
                 entityWithRels, tipData, outputs, log, calls,
                 response>>

\* The fetch of the peer of relationship i fails: processExistingCopies
\* throws, whatever is still in flight
PeerFetchFails(j, i) ==
  /\ UseExistingCopies(target[j])
  /\ MayAnswer(j, i)
  /\ MayFail
  /\ faults' = faults + 1
  /\ batchPromises' = [batchPromises EXCEPT ![j] = Settle(@, i, Rejected)]
  /\ Answered(j, i)
  /\ Throw(j)
  /\ UNCHANGED <<entities, otherWrites, target, batchStart, copies, entityWithRels,
                 tipData, outputs, log, calls,
                 response>>

\* Promise.all resolves: the results are pushed and the loop goes on
BatchFetched(j) ==
  /\ pc[j] = "fetchBatch"
  /\ AllFulfilled(batchPromises[j])
  /\ LET cs == copies[j] \o BatchResults(batchPromises[j], batchStart[j]) IN
     /\ copies' = [copies EXCEPT ![j] = cs]
     /\ EnterFetchBatch(j, CopyRelationshipsOf(entityWithRels[j]),
                        batchStart[j] + BATCH_SIZE, cs,
                        << InfoBatch("Fetched batch", batchStart[j]) >>)
  /\ UNCHANGED <<entities, faults, otherWrites, target, entityWithRels, tipData,
                 reordered,
                 response>>

\* ------------------------------------------------------------------------
\* Other clients of the store
\* ------------------------------------------------------------------------
OtherRelationship == Rel("has_copy", OtherId, TargetType, Str(<<"Other">>))

\* Another client adds a has_copy relationship of its own to the target
OtherWrite ==
  /\ otherWrites < MaxOtherWrites
  /\ otherWrites' = otherWrites + 1
  /\ entities' = [entities EXCEPT ![TargetId] =
       AddRelationships(@, << OtherRelationship >>)]
  /\ UNCHANGED <<faults, pc, target, batchStart, batchPromises, copies,
                 entityWithRels, tipData, outputs, log, inflight, reordered, calls,
                 response>>

Next ==
  \/ \E j \in Jobs : FetchTargetOk(j)
  \/ \E j \in Jobs : FetchTargetFails(j)
  \/ \E j \in Jobs, i \in 0..MaxIndex : CreateOk(j, i)
  \/ \E j \in Jobs, i \in 0..MaxIndex : CreateFails(j, i)
  \/ \E j \in Jobs : BatchCreated(j)
  \/ \E j \in Jobs : GetTipOk(j)
  \/ \E j \in Jobs : GetTipFails(j)
  \/ \E j \in Jobs : UpdateOk(j)
  \/ \E j \in Jobs : UpdateConflict(j)
  \/ \E j \in Jobs : UpdateError(j)
  \/ \E j \in Jobs : RefetchOk(j)
  \/ \E j \in Jobs : RefetchFails(j)
  \/ \E j \in Jobs, i \in 0..MaxIndex : PeerFetchOk(j, i)
  \/ \E j \in Jobs, i \in 0..MaxIndex : PeerFetchFails(j, i)
  \/ \E j \in Jobs : BatchFetched(j)
  \/ OtherWrite

Spec == Init /\ [][Next]_vars

\* A step of some job, no other client writing to the target: a
\* continuation of processJob on an answer of the store
JobStep ==
  \/ \E j \in Jobs : FetchTargetOk(j)
  \/ \E j \in Jobs : FetchTargetFails(j)
  \/ \E j \in Jobs, i \in 0..MaxIndex : CreateOk(j, i)
  \/ \E j \in Jobs, i \in 0..MaxIndex : CreateFails(j, i)
  \/ \E j \in Jobs : BatchCreated(j)
  \/ \E j \in Jobs : GetTipOk(j)
  \/ \E j \in Jobs : GetTipFails(j)
  \/ \E j \in Jobs : UpdateOk(j)
  \/ \E j \in Jobs : UpdateError(j)
  \/ \E j \in Jobs : RefetchOk(j)
  \/ \E j \in Jobs : RefetchFails(j)
  \/ \E j \in Jobs, i \in 0..MaxIndex : PeerFetchOk(j, i)
  \/ \E j \in Jobs, i \in 0..MaxIndex : PeerFetchFails(j, i)
  \/ \E j \in Jobs : BatchFetched(j)

\* Every store call is answered in the end, and the continuation of an
\* awaited call runs when the call is answered
LiveTargets ==
  { t \in Targets :
      /\ t.properties.label = Str(<<"Doc">>)
      /\ t.properties.copy_count \in {Undefined, Num(2), Num(BigCount)}
      /\ t.properties.mix_entity_class \in {Undefined, Bool(TRUE)} }

InitLive == InitWith({1}, LiveTargets)

SpecLive == InitLive /\ [][JobStep]_vars /\ WF_vars(JobStep)

\* ------------------------------------------------------------------------
\* Nested scatter (scatter -> scatter): every output of job 1 is handed to
\* a scatter job of its own
\* ------------------------------------------------------------------------
\* Job 1 has returned: the next step is invoked on its output j - 1
StartNested(j) ==
  /\ j # 1
  /\ pc[j] = "idle"
  /\ pc[1] = "done"
  /\ Len(outputs[1]) >= j - 1
  /\ target' = [target EXCEPT ![j] = [NoTarget EXCEPT !.id = OutputId(outputs[1][j - 1])]]
  /\ Accept(j)
  /\ UNCHANGED <<entities, faults, otherWrites, batchStart, batchPromises,
                 copies, entityWithRels, tipData, outputs, log, inflight, reordered,
                 calls>>

\* The targets of the nested workflow: copy_count 3 as in the test, 2, and
\* none (the default)
NestedCounts == {Num(3), Num(2), Undefined}

NestedTargets ==
  { [properties |-> TargetProperties(c, IF c = Num(2) THEN Bool(TRUE) ELSE Undefined,
                                     Undefined, Str(<<"Doc">>), Undefined),
     peers |-> 0] :
      c \in NestedCounts }

InitNested == InitWith({1}, NestedTargets)

NextNested ==
  \/ \E j \in Jobs : StartNested(j)
  \/ \E j \in Jobs : FetchTargetOk(j)
  \/ \E j \in Jobs, i \in 0..MaxIndex : CreateOk(j, i)
  \/ \E j \in Jobs : BatchCreated(j)
  \/ \E j \in Jobs : GetTipOk(j)
  \/ \E j \in Jobs : GetTipFails(j)
  \/ \E j \in Jobs : UpdateOk(j)

SpecNested == InitNested /\ [][NextNested]_vars

\* ------------------------------------------------------------------------
\* The worker is invoked a second time on the same target
\* ------------------------------------------------------------------------
\* POST /process for the same target again, at any time: before the first
\* job has ended, or after it has returned or failed
StartAgain(j) ==
  /\ j = 2
  /\ pc[j] = "idle"
  /\ Accept(j)
  /\ UNCHANGED <<entities, faults, otherWrites, target, batchStart, batchPromises,
                 copies, entityWithRels, tipData, outputs, log, inflight, reordered,
                 calls>>

AgainTargets ==
  { [properties |-> TargetProperties(c, m, Undefined, Str(<<"Doc">>), Undefined),
     peers |-> 0] :
      c \in {Undefined, Num(2)}, m \in {Undefined, Bool(TRUE)} }

InitAgain == InitWith({1}, AgainTargets)

NextAgain ==
  \/ \E j \in Jobs : StartAgain(j)
  \/ \E j \in Jobs : FetchTargetOk(j)
  \/ \E j \in Jobs : FetchTargetFails(j)
  \/ \E j \in Jobs, i \in 0..MaxIndex : CreateOk(j, i)
  \/ \E j \in Jobs, i \in 0..MaxIndex : CreateFails(j, i)
  \/ \E j \in Jobs : BatchCreated(j)
  \/ \E j \in Jobs : GetTipOk(j)
  \/ \E j \in Jobs : GetTipFails(j)
  \/ \E j \in Jobs : UpdateOk(j)
  \/ \E j \in Jobs : UpdateConflict(j)
  \/ \E j \in Jobs : UpdateError(j)

SpecAgain == InitAgain /\ [][NextAgain]_vars

\* ------------------------------------------------------------------------
\* The scatter worker of kladoi/scatter-worker: a fixed number of copies,
\* created one after another
\* ------------------------------------------------------------------------
NUM_COPIES == 3

\* The properties of the body of POST /entities for index i
SequentialCopyProperties(t, i) ==
  [t.properties EXCEPT
     !.label = CopyLabel(t, i),
     !.copy_index = Num(i),
     !.copy_total = Num(NUM_COPIES),
     !.created_by = Str(<<AgentId>>),
     !.created_at = Str(<<Now>>)]

\* The head of the loop for index i: the creation is issued and awaited, or
\* the loop is over and the tip of the target is requested
EnterCopy(j, i) ==
  /\ batchStart' = [batchStart EXCEPT ![j] = i]
  /\ IF i < NUM_COPIES
       THEN /\ inflight' = [inflight EXCEPT ![j] = {i}]
            /\ calls' = [calls EXCEPT ![j].post = @ \cup {i}]
            /\ pc' = [pc EXCEPT ![j] = "createCopy"]
       ELSE /\ inflight' = [inflight EXCEPT ![j] = {}]
            /\ calls' = [calls EXCEPT ![j].tip = @ + 1]
            /\ pc' = [pc EXCEPT ![j] = "getTip"]

\* fetchTarget answers; the job runs up to its next await
SequentialFetchTargetOk(j) ==
  /\ pc[j] = "fetchTarget"
  /\ LET e == entities[TargetOf(j)]
         t == [id |-> e.id, type |-> e.type, properties |-> e.properties] IN
     /\ target' = [target EXCEPT ![j] = t]
     /\ log' = [log EXCEPT ![j] = @ \o << Info("Scatter worker starting"),
                                         Info("Fetched target entity") >>]
     /\ EnterCopy(j, 0)
  /\ UNCHANGED <<entities, faults, otherWrites, batchPromises, copies,
                 entityWithRels, tipData, outputs, reordered,
                 response>>

\* The store creates the record of the awaited creation; its id is pushed
\* and the loop goes on
SequentialCreateOk(j) ==
  /\ pc[j] = "createCopy"
  /\ LET t == target[j]
         i == batchStart[j]
         id == NewId(j, i) IN
     /\ entities' = entities @@
          (id :> CreatedEntity(id, t.type, SequentialCopyProperties(t, i),
                               CopyOfRelationships(t)))
     /\ copies' = [copies EXCEPT ![j] = Append(@, [id |-> id, entity_class |-> Undefined])]
     /\ log' = [log EXCEPT ![j] = Append(@, Info("Created copy"))]
     /\ EnterCopy(j, i + 1)
  /\ UNCHANGED <<faults, otherWrites, target, batchPromises, entityWithRels,
                 tipData, outputs, reordered,
                 response>>

\* The store answers the awaited creation with an error: processJob throws
SequentialCreateFails(j) ==
  /\ pc[j] = "createCopy"
  /\ MayFail
  /\ faults' = faults + 1
  /\ inflight' = [inflight EXCEPT ![j] = {}]
  /\ Throw(j)
  /\ UNCHANGED <<entities, otherWrites, target, batchStart, batchPromises, copies,
                 entityWithRels, tipData, outputs, log, reordered, calls,
                 response>>

\* The targets tried: the worker reads the label alone
ScatterWorkerTargets ==
  { [properties |-> TargetProperties(c, m, Undefined, l, Undefined), peers |-> 0] :
      c \in SmallCounts, m \in Flags, l \in Labels }

InitScatterWorker == InitWith({1}, ScatterWorkerTargets)

NextScatterWorker ==
  \/ \E j \in Jobs : SequentialFetchTargetOk(j)
  \/ \E j \in Jobs : FetchTargetFails(j)
  \/ \E j \in Jobs : SequentialCreateOk(j)
  \/ \E j \in Jobs : SequentialCreateFails(j)
  \/ \E j \in Jobs : GetTipOk(j)
  \/ \E j \in Jobs : GetTipFails(j)
  \/ \E j \in Jobs : UpdateOk(j)
  \/ \E j \in Jobs : UpdateConflict(j)
  \/ \E j \in Jobs : UpdateError(j)
  \/ OtherWrite

SpecScatterWorker == InitScatterWorker /\ [][NextScatterWorker]_vars

\* ------------------------------------------------------------------------
\* The stamp worker of kladoi/stamp-worker
\* ------------------------------------------------------------------------
\* Variant of ExistingStamps: the stamps of the target are not read.
NoExistingStamps(t) == << >>

ExistingStamps(t) ==
  IF IsArray(t.properties.stamps) THEN t.properties.stamps.arr ELSE << >>

\* Variant of NewStamp: the number is the count before this stamp.
NewStampNumberedFromZero(j, t) ==
  [stamped_at |-> Now, stamped_by |-> AgentId,
   stamp_number |-> Len(ExistingStamps(t)),
   stamp_message |-> <<"Stamp #", ToString(Len(ExistingStamps(t)) + 1),
                       " - This worker was here!">>,
   job_id |-> j]

\* The stamp entry of job j
NewStamp(j, t) ==
  [stamped_at |-> Now, stamped_by |-> AgentId,
   stamp_number |-> Len(ExistingStamps(t)) + 1,
   stamp_message |-> <<"Stamp #", ToString(Len(ExistingStamps(t)) + 1),
                       " - This worker was here!">>,
   job_id |-> j]

Stamps(j, t) == ExistingStamps(t) \o << NewStamp(j, t) >>

\* The body of the PUT of the stamp worker
StampBody(j) ==
  [expect_tip |-> tipData[j].cid,
   properties |-> [target[j].properties EXCEPT
                     !.stamps = Arr(Stamps(j, target[j])),
                     !.stamp_count = Num(Len(Stamps(j, target[j])))]]

\* fetchTarget answers; the tip is requested
StampFetchTargetOk(j) ==
  /\ pc[j] = "fetchTarget"
  /\ LET e == entities[TargetOf(j)] IN
     target' = [target EXCEPT
       ![j] = [id |-> e.id, type |-> e.type, properties |-> e.properties]]
  /\ log' = [log EXCEPT ![j] = @ \o << Info("Stamp worker starting"),
                                      Info("Fetched target entity") >>]
  /\ calls' = [calls EXCEPT ![j].tip = @ + 1]
  /\ pc' = [pc EXCEPT ![j] = "stampTip"]
  /\ UNCHANGED <<entities, faults, otherWrites, batchStart, batchPromises, copies,
                 entityWithRels, tipData, outputs, inflight, reordered,
                 response>>

\* GET /entities/{id}/tip answers; the PUT is issued
StampGetTipOk(j) ==
  /\ pc[j] = "stampTip"
  /\ tipData' = [tipData EXCEPT ![j] = [cid |-> entities[target[j].id].cid]]
  /\ calls' = [calls EXCEPT ![j].put = @ + 1]
  /\ pc' = [pc EXCEPT ![j] = "stampPut"]
  /\ UNCHANGED <<entities, faults, otherWrites, target, batchStart, batchPromises,
                 copies, entityWithRels, outputs, log, inflight, reordered,
                 response>>

\* GET /entities/{id}/tip fails: processJob throws
StampGetTipFails(j) ==
  /\ pc[j] = "stampTip"
  /\ MayFail
  /\ faults' = faults + 1
  /\ Throw(j)
  /\ UNCHANGED <<entities, otherWrites, target, batchStart, batchPromises, copies,
                 entityWithRels, tipData, outputs, log, inflight, reordered, calls,
                 response>>

\* The store applies the PUT; the job logs and returns the target
StampUpdateOk(j) ==
  /\ pc[j] = "stampPut"
  /\ TipMatches(entities[target[j].id], StampBody(j).expect_tip)
  /\ entities' = [entities EXCEPT ![target[j].id] = ApplyUpdate(@, StampBody(j))]
  /\ log' = [log EXCEPT ![j] = @ \o << Info("Entity stamped successfully"),
                                      Success("Job completed", << >>) >>]
  /\ outputs' = [outputs EXCEPT ![j] = << [plain |-> target[j].id] >>]
  /\ pc' = [pc EXCEPT ![j] = "done"]
  /\ UNCHANGED <<faults, otherWrites, target, batchStart, batchPromises, copies,
                 entityWithRels, tipData, inflight, reordered, calls,
                 response>>

\* Variant of StampUpdateConflict: the rejection is logged and the job
\* returns the target, as the scatter worker does for its back-link.
StampUpdateConflictTolerated(j) ==
  /\ pc[j] = "stampPut"
  /\ ~TipMatches(entities[target[j].id], StampBody(j).expect_tip)
  /\ log' = [log EXCEPT ![j] = @ \o << Info("Failed to stamp entity"),
                                      Success("Job completed", << >>) >>]
  /\ outputs' = [outputs EXCEPT ![j] = << [plain |-> target[j].id] >>]
  /\ pc' = [pc EXCEPT ![j] = "done"]
  /\ UNCHANGED <<entities, faults, otherWrites, target, batchStart, batchPromises,
                 copies, entityWithRels, tipData, inflight, reordered, calls,
                 response>>

\* The store rejects the PUT, the tip having moved: processJob throws
StampUpdateConflict(j) ==
  /\ pc[j] = "stampPut"
  /\ ~TipMatches(entities[target[j].id], StampBody(j).expect_tip)
  /\ Throw(j)
  /\ UNCHANGED <<entities, faults, otherWrites, target, batchStart, batchPromises,
                 copies, entityWithRels, tipData, outputs, log, inflight, reordered,
                 calls,
                 response>>

\* The PUT fails for another reason: processJob throws
StampUpdateError(j) ==
  /\ pc[j] = "stampPut"
  /\ MayFail
  /\ faults' = faults + 1
  /\ Throw(j)
  /\ UNCHANGED <<entities, otherWrites, target, batchStart, batchPromises, copies,
                 entityWithRels, tipData, outputs, log, inflight, reordered, calls,
                 response>>

\* The next step of a chain of stamp steps is invoked on the output of the
\* step before it, once that step has returned
StartNextStamp(j) ==
  /\ j # 1
  /\ pc[j] = "idle"
  /\ pc[j - 1] = "done"
  /\ outputs[j - 1] = << [plain |-> TargetId] >>
  /\ Accept(j)
  /\ UNCHANGED <<entities, faults, otherWrites, target, batchStart, batchPromises,
                 copies, entityWithRels, tipData, outputs, log, inflight, reordered,
                 calls>>

\* The entities stamped: never stamped, or with a stamps property that is
\* no array
StampTargets ==
  { [properties |-> [TargetProperties(Undefined, Undefined, Undefined, l, Undefined)
                       EXCEPT !.stamps = s],
     peers |-> 0] :
      l \in Labels, s \in {Undefined, Str(<<"none">>)} }

InitStamp == InitWith({1}, StampTargets)

NextStamp ==
  \/ \E j \in Jobs : StartNextStamp(j)
  \/ \E j \in Jobs : StampFetchTargetOk(j)
  \/ \E j \in Jobs : FetchTargetFails(j)
  \/ \E j \in Jobs : StampGetTipOk(j)
  \/ \E j \in Jobs : StampGetTipFails(j)
  \/ \E j \in Jobs : StampUpdateOk(j)
  \/ \E j \in Jobs : StampUpdateConflict(j)
  \/ \E j \in Jobs : StampUpdateError(j)
  \/ OtherWrite

SpecStamp == InitStamp /\ [][NextStamp]_vars

\* Stamp jobs invoked at the same time on the same entity
\* ------------------------------------------------------------------------
\* The stamp an earlier job has left
EarlierStamp ==
  [stamped_at |-> Now, stamped_by |-> AgentId, stamp_number |-> 1,
   stamp_message |-> <<"Stamp #", "1", " - This worker was here!">>,
   job_id |-> 0]

\* The entities stamped: never stamped, or stamped once before
StampRaceTargets ==
  { [properties |-> [TargetProperties(Undefined, Undefined, Undefined, l, Undefined)
                       EXCEPT !.stamps = Undefined],
     peers |-> 0] : l \in Labels }
  \cup
  { [properties |-> [TargetProperties(Undefined, Undefined, Undefined, l, Undefined)
                       EXCEPT !.stamps = Arr(<< EarlierStamp >>),
                              !.stamp_count = Num(1)],
     peers |-> 0] : l \in Labels }

StampRaceJobs == {1, 2, 3}

InitStampRace == InitWith(StampRaceJobs, StampRaceTargets)

NextStampRace ==
  \/ \E j \in Jobs : StampFetchTargetOk(j)
  \/ \E j \in Jobs : FetchTargetFails(j)
  \/ \E j \in Jobs : StampGetTipOk(j)
  \/ \E j \in Jobs : StampGetTipFails(j)
  \/ \E j \in Jobs : StampUpdateOk(j)
  \/ \E j \in Jobs : StampUpdateConflict(j)
  \/ \E j \in Jobs : StampUpdateError(j)

SpecStampRace == InitStampRace /\ [][NextStampRace]_vars

\* The endpoint POST /process
\* ------------------------------------------------------------------------
\* The requests sent to the worker
ProcessJobs == {1, 2}

\* POST /process for job j arrives and is handled
Process(j) ==
  /\ j \in ProcessJobs
  /\ pc[j] = "idle"
  /\ Accept(j)
  /\ UNCHANGED <<entities, faults, otherWrites, target, batchStart, batchPromises,
                 copies, entityWithRels, tipData, outputs, log, inflight, reordered,
                 calls>>

InitProcess == InitWith({}, AgainTargets)

NextProcess ==
  \/ \E j \in Jobs : Process(j)
  \/ \E j \in Jobs : FetchTargetOk(j)
  \/ \E j \in Jobs : FetchTargetFails(j)
  \/ \E j \in Jobs, i \in 0..MaxIndex : CreateOk(j, i)
  \/ \E j \in Jobs, i \in 0..MaxIndex : CreateFails(j, i)
  \/ \E j \in Jobs : BatchCreated(j)
  \/ \E j \in Jobs : GetTipOk(j)
  \/ \E j \in Jobs : GetTipFails(j)
  \/ \E j \in Jobs : UpdateOk(j)
  \/ \E j \in Jobs : UpdateConflict(j)
  \/ \E j \in Jobs : UpdateError(j)

SpecProcess == InitProcess /\ [][NextProcess]_vars

\* ------------------------------------------------------------------------
\* Vocabulary of the properties
\* ------------------------------------------------------------------------
\* The records job j has created in the store
Created(j) == {id \in DOMAIN entities : id[1] = "copy" /\ id[2] = j}

\* Job j has fetched its target and runs in generation mode
Generating(j) ==
  /\ pc[j] \notin {"idle", "fetchTarget"}
  /\ target[j].properties.use_existing_copies # Bool(TRUE)

\* Job j has fetched its target and runs in existing-copies mode
UsingExisting(j) ==
  /\ pc[j] \notin {"idle", "fetchTarget"}
  /\ target[j].properties.use_existing_copies = Bool(TRUE)

\* The copy count of a target as the specification defines it: the
\* property when it is a number, 3 otherwise
ConfiguredCount(properties) ==
  IF IsNum(properties.copy_count) THEN properties.copy_count.num ELSE 3

\* The number of copies job j sets out to create
Wanted(j) ==
  IF LessThan(0, NumCopies(target[j])) THEN ToNumber(NumCopies(target[j])).num ELSE 0

\* The record job j created with copy_index i
CopyAt(j, i) == CHOOSE id \in Created(j) : entities[id].properties.copy_index = Num(i)

\* The output due for index i: tagged by parity when mix_entity_class is
\* true, the bare id otherwise
ExpectedOutput(j, i) ==
  IF target[j].properties.mix_entity_class = Bool(TRUE)
    THEN [entity_id |-> CopyAt(j, i),
          entity_class |-> IF i % 2 = 0 THEN Str(<<"canonical">>) ELSE Str(<<"mention">>)]
    ELSE [plain |-> CopyAt(j, i)]

BacklinkFailure(j) ==
  \E k \in 1..Len(log[j]) :
    log[j][k].message \in {"Failed to get tip for original entity",
                           "Failed to add has_copy relationships to original"}

\* ------------------------------------------------------------------------
\* Properties
\* ------------------------------------------------------------------------
\* C1: in generation mode, when processJob has returned for a target whose
\* copy count is N >= 0 (its copy_count, or 3 when it has none), exactly N
\* records were created, their copy_index values are exactly 0..N-1 and
\* each has copy_total = N.
C1_ExactlyNCopies ==
  \A j \in Jobs :
    (pc[j] = "done" /\ Generating(j)) =>
      LET c == target[j].properties.copy_count
          N == ConfiguredCount(target[j].properties) IN
      ((c = Undefined \/ IsNum(c)) /\ N >= 0) =>
        /\ Cardinality(Created(j)) = N
        /\ {entities[id].properties.copy_index : id \in Created(j)}
             = {Num(i) : i \in 0..(N - 1)}
        /\ \A id \in Created(j) : entities[id].properties.copy_total = Num(N)

\* The same statement for the targets whose copy_count is absent or a
\* positive number: it holds there.
ExactlyNCopiesWhenPositive ==
  \A j \in Jobs :
    (pc[j] = "done" /\ Generating(j)) =>
      LET c == target[j].properties.copy_count
          N == ConfiguredCount(target[j].properties) IN
      (c = Undefined \/ (IsNum(c) /\ N > 0)) =>
        /\ Cardinality(Created(j)) = N
        /\ {entities[id].properties.copy_index : id \in Created(j)}
             = {Num(i) : i \in 0..(N - 1)}
        /\ \A id \in Created(j) : entities[id].properties.copy_total = Num(N)

\* C2: whatever the order in which the creations of a batch complete, the
\* k-th output of a returned generation job carries the id of the record
\* created with copy_index k-1.
C2_OutputsInIndexOrder ==
  \A j \in Jobs :
    (pc[j] = "done" /\ Generating(j)) =>
      \A k \in 1..Len(outputs[j]) :
        /\ OutputId(outputs[j][k]) \in DOMAIN entities
        /\ entities[OutputId(outputs[j][k])].properties.copy_index = Num(k - 1)

\* A generation job has returned several outputs after some creation
\* overtook an older one.
C2_Witness ==
  \E j \in Jobs :
    /\ pc[j] = "done" /\ Generating(j)
    /\ reordered[j]
    /\ Len(outputs[j]) > BATCH_SIZE

\* C3: once the back-link step has failed (tip read failed, update rejected
\* or in error) the job has returned, and a returned generation job has one
\* output per wanted copy, in index order, classified as the index and
\* mix_entity_class require, whether or not the back-link failed.
C3_BacklinkFailureKeepsOutputs ==
  \A j \in Jobs :
    /\ BacklinkFailure(j) => pc[j] = "done"
    /\ (pc[j] = "done" /\ Generating(j)) =>
         /\ Len(outputs[j]) = Wanted(j)
         /\ Cardinality(Created(j)) = Wanted(j)
         /\ \A k \in 1..Len(outputs[j]) : outputs[j][k] = ExpectedOutput(j, k - 1)

\* A job whose update was rejected has returned tagged outputs.
C3_Witness ==
  \E j \in Jobs :
    /\ BacklinkFailure(j)
    /\ pc[j] = "done"
    /\ Len(outputs[j]) >= 2
    /\ target[j].properties.mix_entity_class = Bool(TRUE)

\* C4: if a creation fails in generation mode, processJob throws and
\* returns nothing, no creation of a later batch is ever issued, and neither
\* the tip read nor the update of the target is ever attempted.
CreationFailed(j) ==
  /\ Generating(j)
  /\ \E i \in DOMAIN batchPromises[j] : batchPromises[j][i].state = "rejected"

C4_CreationFailureIsFatal ==
  \A j \in Jobs :
    CreationFailed(j) =>
      /\ pc[j] = "failed"
      /\ outputs[j] = << >>
      /\ \A i \in calls[j].post : i < batchStart[j] + BATCH_SIZE
      /\ calls[j].tip = 0
      /\ calls[j].put = 0

\* A creation of the first of two batches has failed and every other
\* request of that batch has been answered since.
C4_Witness ==
  \E j \in Jobs :
    /\ CreationFailed(j)
    /\ Wanted(j) > BATCH_SIZE
    /\ batchStart[j] = 0
    /\ inflight[j] = {}
    /\ Cardinality(Created(j)) = BATCH_SIZE - 1

\* C5: batches are strictly sequential in both modes: while a request is in
\* flight, no request of a later batch has been issued.
BatchOf(i) == i \div BATCH_SIZE

Issued(j) == calls[j].post \cup calls[j].get

C5_BatchesSequential ==
  \A j \in Jobs :
    \A i \in inflight[j] :
      \A k \in Issued(j) : BatchOf(k) <= BatchOf(i)

\* The second batch of a generation job is in flight.
C5_Witness ==
  \E j \in Jobs :
    /\ Generating(j)
    /\ pc[j] = "createBatch"
    /\ batchStart[j] = BATCH_SIZE
    /\ inflight[j] # {}
    /\ Cardinality(Created(j)) >= BATCH_SIZE

\* The second batch of a job in existing-copies mode is in flight.
SecondFetchBatchInFlight ==
  \E j \in Jobs :
    /\ UsingExisting(j)
    /\ pc[j] = "fetchBatch"
    /\ batchStart[j] = BATCH_SIZE
    /\ inflight[j] # {}

\* C6: a job never has more than 20 store requests in flight (creations or
\* peer fetches), also when the count is no multiple of 20.
C6_InFlightBounded ==
  \A j \in Jobs : Cardinality(inflight[j]) <= 20

\* A full batch of peer fetches is in flight, of a number of copies that
\* is no multiple of 20.
C6_Witness ==
  \E j \in Jobs :
    /\ UsingExisting(j)
    /\ Cardinality(inflight[j]) = 20
    /\ Len(CopyRelationshipsOf(entityWithRels[j])) % 20 # 0

\* The last, partial batch of creations is in flight.
PartialCreateBatchInFlight ==
  \E j \in Jobs :
    /\ Generating(j)
    /\ batchStart[j] = BATCH_SIZE
    /\ Cardinality(inflight[j]) = Wanted(j) - BATCH_SIZE
    /\ Wanted(j) % 20 # 0

\* C7: a job on a target with use_existing_copies = true issues no
\* creation, no tip read and no update, and creates no record, whatever
\* copy_count and mix_entity_class are and whether it succeeds or fails.
C7_ExistingModeWritesNothing ==
  \A j \in Jobs :
    (pc[j] \notin {"idle", "fetchTarget"}
       /\ entities[TargetOf(j)].properties.use_existing_copies = Bool(TRUE)) =>
      /\ calls[j].post = {}
      /\ calls[j].tip = 0
      /\ calls[j].put = 0
      /\ Created(j) = {}

\* A job in existing-copies mode has returned outputs for a target that
\* has a copy_count and mix_entity_class = true.
C7_Witness ==
  \E j \in Jobs :
    /\ UsingExisting(j)
    /\ pc[j] = "done"
    /\ Len(outputs[j]) >= 2
    /\ IsNum(target[j].properties.copy_count)
    /\ target[j].properties.mix_entity_class = Bool(TRUE)

\* A job in existing-copies mode has failed after it issued peer fetches.
ExistingModeFailed ==
  \E j \in Jobs : UsingExisting(j) /\ pc[j] = "failed" /\ calls[j].get # {}

\* C8: in existing-copies mode the number of outputs returned equals the
\* number of has_copy relationships the target had when it was re-fetched,
\* whatever its copy_count and whatever was added to it afterwards.
HasCopyCount(rels) ==
  Cardinality({k \in 1..Len(rels) : rels[k].predicate = "has_copy"})

C8_OutputCountIsRelationshipCount ==
  \A j \in Jobs :
    (pc[j] = "done" /\ UsingExisting(j)) =>
      Len(outputs[j]) = HasCopyCount(entityWithRels[j].relationships)

\* A job in existing-copies mode has returned; its target has a copy_count
\* other than the number of outputs, and has gained a has_copy
\* relationship since the re-fetch.
C8_Witness ==
  \E j \in Jobs :
    /\ pc[j] = "done" /\ UsingExisting(j)
    /\ Len(outputs[j]) > 0
    /\ IsNum(target[j].properties.copy_count)
    /\ target[j].properties.copy_count # Num(Len(outputs[j]))
    /\ HasCopyCount(entities[TargetOf(j)].relationships) > Len(outputs[j])

\* C9: when the target has been modified since the job read its tip, the
\* answer to the job's update leaves the store as it is (no has_copy is
\* added, the other writer's relationship stays), and the job returns all
\* its N copies, which all exist; no step removes a relationship another
\* writer added.
OthersCount(rels) ==
  Cardinality({k \in 1..Len(rels) : rels[k] = OtherRelationship})

C9_StaleUpdateRejected ==
  [][ /\ \A j \in Jobs :
           (/\ pc[j] = "putUpdate"
            /\ pc'[j] # "putUpdate"
            /\ entities[TargetOf(j)].cid # tipData[j].cid) =>
             /\ entities' = entities
             /\ pc'[j] = "done"
             /\ Len(outputs'[j]) = Wanted(j)
             /\ Cardinality(Created(j)) = Wanted(j)
             /\ \A k \in 1..Len(outputs'[j]) : OutputId(outputs'[j][k]) \in Created(j)
      /\ OthersCount(entities'[TargetId].relationships)
           >= OthersCount(entities[TargetId].relationships)
    ]_vars

\* A job has returned after its update was rejected for a moved tip, no
\* store call having failed: the target holds the other writer's
\* relationship and none to the copies of the job.
C9_Witness ==
  \E j \in Jobs :
    /\ pc[j] = "done" /\ Generating(j)
    /\ calls[j].put = 1
    /\ faults = 0
    /\ otherWrites > 0
    /\ BacklinkFailure(j)
    /\ Len(outputs[j]) >= 2
    /\ OthersCount(entities[TargetId].relationships) = otherWrites
    /\ \A k \in 1..Len(entities[TargetId].relationships) :
         entities[TargetId].relationships[k].peer \notin Created(j)

\* C10: a job issues at most one tip read and at most one update of the
\* target, the update only once all its creations have succeeded, and
\* nothing more after a failure of either.
C10_OneUpdateAfterAllCreations ==
  \A j \in Jobs :
    /\ calls[j].tip <= 1
    /\ calls[j].put <= calls[j].tip
    /\ calls[j].put >= 1 =>
         /\ inflight[j] = {}
         /\ calls[j].post = 0..(Wanted(j) - 1)
         /\ \A i \in calls[j].post : NewId(j, i) \in DOMAIN entities
         /\ \A i \in DOMAIN batchPromises[j] : batchPromises[j][i].state = "fulfilled"
    /\ BacklinkFailure(j) => pc[j] = "done"

\* A job of two batches has returned after a failure of its back-link
\* step, having issued one update.
C10_Witness ==
  \E j \in Jobs :
    /\ pc[j] = "done"
    /\ BacklinkFailure(j)
    /\ calls[j].tip = 1
    /\ calls[j].put = 1
    /\ Wanted(j) > BATCH_SIZE
    /\ Cardinality(Created(j)) = Wanted(j)

\* The has_copy relationships of the target of job j whose peer is a record
\* the job created, in the order of the list
BackLinks(j) ==
  SelectSeq(entities[TargetOf(j)].relationships,
            LAMBDA r : r.predicate = "has_copy" /\ r.peer \in Created(j))

\* The has_copy relationships of the target that were there before any job
\* or were added by other clients
ForeignCopyLinks == Cardinality({id \in DOMAIN entities : id[1] = "peer"}) + otherWrites

\* Job j has returned in generation mode, its tip read and its update having
\* succeeded
BacklinkApplied(j) ==
  /\ pc[j] = "done" /\ Generating(j)
  /\ calls[j].put = 1
  /\ ~BacklinkFailure(j)

\* C11: when a generation job with copy count N >= 0 (the target's
\* copy_count, or 3 when it has none) has returned and its tip read and
\* update succeeded, the target has gained exactly N has_copy relationships:
\* their peers are exactly the N records the job created, one each, and
\* their peer_type is the type of the target.
C11_TargetGainsNBacklinks ==
  \A j \in Jobs :
    BacklinkApplied(j) =>
      LET c == target[j].properties.copy_count
          N == ConfiguredCount(target[j].properties)
          links == BackLinks(j) IN
      ((c = Undefined \/ IsNum(c)) /\ N >= 0) =>
        /\ Len(links) = N
        /\ Cardinality(Created(j)) = N
        /\ {links[k].peer : k \in 1..Len(links)} = Created(j)
        /\ \A k \in 1..Len(links) : links[k].peer_type = target[j].type
        /\ HasCopyCount(entities[TargetOf(j)].relationships) = ForeignCopyLinks + N

\* The same statement with N the number of copies the job set out to
\* create: it holds, so the back-link always matches the copies created.
BacklinksMatchCreatedCopies ==
  \A j \in Jobs :
    BacklinkApplied(j) =>
      LET N == Wanted(j)
          links == BackLinks(j) IN
        /\ Len(links) = N
        /\ Cardinality(Created(j)) = N
        /\ {links[k].peer : k \in 1..Len(links)} = Created(j)
        /\ \A k \in 1..Len(links) : links[k].peer_type = target[j].type
        /\ HasCopyCount(entities[TargetOf(j)].relationships) = ForeignCopyLinks + N

\* "canonical" for an even index, "mention" for an odd one
ParityClass(i) == IF i % 2 = 0 THEN Str(<<"canonical">>) ELSE Str(<<"mention">>)

\* C12: with mix_entity_class = true, every record a job creates has the
\* class of the parity of its copy_index, and when the job has returned for
\* a copy count N, for every i in 0..N-1 the record with copy_index i exists
\* and the output at place i is the tagged object with the id of that record
\* and that same class.
C12_ClassByParity ==
  \A j \in Jobs :
    (Generating(j) /\ target[j].properties.mix_entity_class = Bool(TRUE)) =>
      /\ \A id \in Created(j) :
           /\ IsNum(entities[id].properties.copy_index)
           /\ entities[id].properties.entity_class
                = ParityClass(entities[id].properties.copy_index.num)
      /\ LET c == target[j].properties.copy_count
             N == ConfiguredCount(target[j].properties) IN
         (pc[j] = "done" /\ (c = Undefined \/ IsNum(c))) =>
           \A i \in 0..(N - 1) :
             /\ \E id \in Created(j) : entities[id].properties.copy_index = Num(i)
             /\ Len(outputs[j]) > i
             /\ outputs[j][i + 1] =
                  [entity_id |-> CopyAt(j, i),
                   entity_class |-> entities[CopyAt(j, i)].properties.entity_class]
             /\ outputs[j][i + 1].entity_class = ParityClass(i)

\* A job with mix_entity_class = true has returned more than one batch of
\* tagged outputs, of both classes.
C12_Witness ==
  \E j \in Jobs :
    /\ pc[j] = "done" /\ Generating(j)
    /\ target[j].properties.mix_entity_class = Bool(TRUE)
    /\ Len(outputs[j]) > BATCH_SIZE
    /\ outputs[j][BATCH_SIZE + 1].entity_class = Str(<<"canonical">>)
    /\ outputs[j][BATCH_SIZE + 2].entity_class = Str(<<"mention">>)

\* C13: when mix_entity_class is not true, no record a job creates has an
\* entity_class property, whatever the target, also when the target has an
\* entity_class of its own.
C13_NoClassWithoutMix ==
  \A j \in Jobs :
    (Generating(j) /\ target[j].properties.mix_entity_class # Bool(TRUE)) =>
      \A id \in Created(j) : entities[id].properties.entity_class = Undefined

\* The same statement for targets without an entity_class of their own: it
\* holds there.
NoClassWithoutMixFromPlainTarget ==
  \A j \in Jobs :
    (/\ Generating(j)
     /\ target[j].properties.mix_entity_class # Bool(TRUE)
     /\ target[j].properties.entity_class = Undefined) =>
      \A id \in Created(j) : entities[id].properties.entity_class = Undefined

\* C14: a job on a target with copy_count = 0 whose use_existing_copies is
\* not true issues no creation and creates no record, and when it has
\* returned it has returned no output.
C14_ZeroCopies ==
  \A j \in Jobs :
    (Generating(j) /\ target[j].properties.copy_count = Num(0)) =>
      /\ calls[j].post = {}
      /\ Created(j) = {}
      /\ pc[j] = "done" => outputs[j] = << >>

\* C15: the copy count a generation job uses is a non-negative integer: the
\* target's copy_count when that is a number, 3 in every other case (absent
\* or not a number), and that many records exist when the job has returned.
C15_CopyCountOrDefault ==
  \A j \in Jobs :
    Generating(j) =>
      LET n == NumCopies(target[j]) IN
      /\ IsNum(n)
      /\ n.num >= 0
      /\ n.num = ConfiguredCount(target[j].properties)
      /\ pc[j] = "done" =>
           Cardinality(Created(j)) = ConfiguredCount(target[j].properties)

\* The same statement for targets whose copy_count is absent or a positive
\* number: it holds there.
CopyCountOrDefaultWhenPositive ==
  \A j \in Jobs :
    (/\ Generating(j)
     /\ \/ target[j].properties.copy_count = Undefined
        \/ /\ IsNum(target[j].properties.copy_count)
           /\ target[j].properties.copy_count.num > 0) =>
      LET n == NumCopies(target[j]) IN
      /\ IsNum(n)
      /\ n.num >= 0
      /\ n.num = ConfiguredCount(target[j].properties)
      /\ pc[j] = "done" =>
           Cardinality(Created(j)) = ConfiguredCount(target[j].properties)

\* A job on a target whose copy_count is a string has returned without
\* creating anything.
MalformedCountCreatesNothing ==
  \E j \in Jobs :
    /\ pc[j] = "done" /\ Generating(j)
    /\ IsStr(target[j].properties.copy_count)
    /\ Created(j) = {}
    /\ outputs[j] = << >>

PeerFetchFailed(j) ==
  /\ UsingExisting(j)
  /\ \E i \in DOMAIN batchPromises[j] : batchPromises[j][i].state = "rejected"

\* The re-fetch of the target of job j has failed
RefetchFailed(j) ==
  /\ UsingExisting(j)
  /\ faults > 0
  /\ calls[j].get = {}

\* C17: in existing-copies mode, once the re-fetch of the target or a peer
\* fetch has failed, processJob has thrown and returns no outputs, and after
\* a failed peer fetch no fetch of a later batch is ever issued.
C17_FetchFailureIsFatal ==
  \A j \in Jobs :
    /\ (RefetchFailed(j) \/ PeerFetchFailed(j)) =>
         /\ pc[j] = "failed"
         /\ outputs[j] = << >>
    /\ PeerFetchFailed(j) =>
         \A i \in calls[j].get : i < batchStart[j] + BATCH_SIZE
    /\ (UsingExisting(j) /\ faults > 0) => pc[j] = "failed"

\* A peer fetch of the first of two batches has failed and every other
\* fetch of that batch has been answered since.
C17_Witness ==
  \E j \in Jobs :
    /\ PeerFetchFailed(j)
    /\ Len(CopyRelationshipsOf(entityWithRels[j])) > BATCH_SIZE
    /\ batchStart[j] = 0
    /\ inflight[j] = {}
    /\ \E i \in DOMAIN batchPromises[j] : batchPromises[j][i].state = "fulfilled"

\* The re-fetch of a target that has copies has failed.
RefetchFailedWithCopies ==
  \E j \in Jobs :
    /\ RefetchFailed(j)
    /\ HasCopyCount(entities[TargetOf(j)].relationships) > 0

\* The re-fetch of the target of job j was answered
Refetched(j) == UsingExisting(j) /\ entityWithRels[j] # NoEntity

\* C18: in existing-copies mode, when the re-fetched target has no has_copy
\* relationship (whatever other relationships it has), processJob has
\* returned the empty sequence, it has not thrown, and no peer fetch was
\* issued.
C18_NoCopiesIsEmptyResult ==
  \A j \in Jobs :
    (Refetched(j) /\ HasCopyCount(entityWithRels[j].relationships) = 0) =>
      /\ pc[j] = "done"
      /\ outputs[j] = << >>
      /\ calls[j].get = {}
      /\ inflight[j] = {}

\* A job in existing-copies mode has returned for a target whose only
\* relationship is of another kind.
C18_Witness ==
  \E j \in Jobs :
    /\ Refetched(j)
    /\ pc[j] = "done"
    /\ Len(entityWithRels[j].relationships) > 0
    /\ HasCopyCount(entityWithRels[j].relationships) = 0
    /\ log[j][Len(log[j])].message = "No existing copies found"

\* old is the beginning of new, and what new has more are has_copy
\* relationships
AppendedHasCopy(old, new) ==
  /\ Len(new) >= Len(old)
  /\ SubSeq(new, 1, Len(old)) = old
  /\ \A k \in (Len(old) + 1)..Len(new) : new[k].predicate = "has_copy"

\* C19: no step of a job changes the type or the properties of a record,
\* its only change of the target's relationships is an append of has_copy
\* relationships, and it leaves every other record, the copies it created
\* included, exactly as created.
C19_TargetOnlyAppendedTo ==
  [][ otherWrites' = otherWrites =>
        \A id \in DOMAIN entities :
          /\ id \in DOMAIN entities'
          /\ entities'[id].type = entities[id].type
          /\ entities'[id].properties = entities[id].properties
          /\ AppendedHasCopy(entities[id].relationships, entities'[id].relationships)
          /\ id # TargetId => entities'[id] = entities[id]
    ]_vars

\* The update of a job of two batches was applied: the target has its
\* properties and its first relationship as before, and the back-links
\* after them.
C19_Witness ==
  \E j \in Jobs :
    /\ BacklinkApplied(j)
    /\ Len(BackLinks(j)) > BATCH_SIZE
    /\ entities[TargetOf(j)].properties = target[j].properties
    /\ entities[TargetOf(j)].properties.label = Str(<<"Doc">>)
    /\ entities[TargetOf(j)].relationships[1].predicate = "in_collection"
    /\ \A id \in Created(j) : Len(entities[id].relationships) = 1

\* The keys the body of a creation sets itself
OverriddenKeys ==
  {"label", "copy_index", "copy_total", "source_entity", "created_by",
   "created_at", "entity_class"}

\* All the records created by jobs
AllCreated == {id \in DOMAIN entities : id[1] = "copy"}

\* The nested jobs a workflow on a target of copy count n runs
NestedJobs(n) == {j \in Jobs : 2 <= j /\ j <= n + 1}

\* C20: a record a job creates has, for every key but the overridden ones,
\* the value its target has; so a copy has the copy_count of its target, a
\* scatter job invoked on a copy of a target of copy count N creates N
\* records again, and when the job on the target and the jobs on its N
\* copies have returned there are N + N * N records (3 + 9 for N = 3).
C20_CopiesInheritProperties ==
  \A j \in Jobs :
    Generating(j) =>
      /\ \A id \in Created(j) :
           /\ \A key \in DOMAIN NoProperties \ OverriddenKeys :
                entities[id].properties[key] = target[j].properties[key]
           /\ entities[id].properties.copy_count = entities[TargetId].properties.copy_count
      /\ LET N == ConfiguredCount(entities[TargetId].properties) IN
         /\ pc[j] = "done" => Cardinality(Created(j)) = N
         /\ (\A k \in {1} \cup NestedJobs(N) : pc[k] = "done") =>
              Cardinality(AllCreated) = N + N * N

\* The job on a target with copy_count = 3 and the three jobs on its copies
\* have returned: there are twelve records, nine of them copies of copies.
C20_Witness ==
  /\ entities[TargetId].properties.copy_count = Num(3)
  /\ \A j \in Jobs : pc[j] = "done"
  /\ Cardinality(AllCreated) = 12
  /\ Cardinality({id \in AllCreated :
                    entities[id].properties.source_entity # IdVal(TargetId)}) = 9

\* C21: every record the scatter worker creates has a source_entity
\* property that is the id of the target of the job that created it.
C21_CopiesCarrySourceEntity ==
  \A j \in Jobs :
    \A id \in Created(j) :
      entities[id].properties.source_entity = IdVal(target[j].id)

\* C22: a record created in generation mode has exactly one relationship,
\* copy_of with the target as peer, from its creation on; and every
\* has_copy relationship of the target that points at a record of a job
\* points at a record that exists and has that relationship.
C22_CopyOfFromCreation ==
  \A j \in Jobs :
    Generating(j) =>
      /\ \A id \in Created(j) :
           /\ Len(entities[id].relationships) = 1
           /\ entities[id].relationships[1].predicate = "copy_of"
           /\ entities[id].relationships[1].peer = target[j].id
      /\ \A k \in 1..Len(entities[TargetOf(j)].relationships) :
           LET r == entities[TargetOf(j)].relationships[k] IN
           (r.predicate = "has_copy" /\ r.peer[1] = "copy") =>
             /\ r.peer \in Created(j)
             /\ entities[r.peer].relationships[1].predicate = "copy_of"
      /\ calls[j].put = 0 => BackLinks(j) = << >>

\* The copies of a job exist with their copy_of relationship while the
\* update is still to be answered, and the target has no back-link yet.
C22_Witness ==
  \E j \in Jobs :
    /\ Generating(j)
    /\ pc[j] = "putUpdate"
    /\ Cardinality(Created(j)) > BATCH_SIZE
    /\ \A id \in Created(j) : entities[id].relationships[1].peer = TargetId
    /\ BackLinks(j) = << >>

\* The label due for the copy of index i of a target with these properties
ExpectedLabel(properties, i) ==
  Str((IF properties.label = Undefined THEN <<"Entity">> ELSE properties.label.str)
      \o <<" - Copy ", ToString(i + 1)>>)

\* C23: the label of a record created in generation mode with copy_index i
\* is the label of the target, or "Entity" when the target has none,
\* followed by " - Copy " and i + 1.
C23_CopyLabel ==
  \A j \in Jobs :
    Generating(j) =>
      \A id \in Created(j) :
        entities[id].properties.label =
          ExpectedLabel(target[j].properties, entities[id].properties.copy_index.num)

\* A job on a target without label has created its third copy.
C23_Witness ==
  \E j \in Jobs :
    /\ Generating(j)
    /\ target[j].properties.label = Undefined
    /\ \E id \in Created(j) :
         /\ entities[id].properties.copy_index = Num(2)
         /\ entities[id].properties.label = Str(<<"Entity", " - Copy ", "3">>)

\* A job on a target with a label has created a copy of its second batch.
LabelledCopyOfSecondBatch ==
  \E j \in Jobs :
    /\ Generating(j)
    /\ \E id \in Created(j) :
         entities[id].properties.label = Str(<<"Doc", " - Copy ", "21">>)

\* The places of the success messages in the log of job j
SuccessMessages(j) == {k \in 1..Len(log[j]) : log[j][k].level = "success"}

\* C24: a generation job that has returned has logged, as its last message
\* and only once, the success message "Scatter complete" whose copyIds are
\* the ids of the outputs it has returned, in the same order and number; a
\* job that has not returned (it runs or has failed) has logged no success
\* message.
C24_SuccessListsOutputs ==
  \A j \in Jobs :
    Generating(j) =>
      /\ pc[j] = "done" =>
           /\ SuccessMessages(j) = {Len(log[j])}
           /\ log[j][Len(log[j])].message = "Scatter complete"
           /\ log[j][Len(log[j])].copyIds =
                [k \in 1..Len(outputs[j]) |-> OutputId(outputs[j][k])]
      /\ pc[j] # "done" => SuccessMessages(j) = {}

\* A job of two batches has returned after a reordering and has logged
\* the ids of its outputs, the record of index 0 first.
C24_Witness ==
  \E j \in Jobs :
    /\ pc[j] = "done" /\ Generating(j)
    /\ reordered[j]
    /\ Len(outputs[j]) > BATCH_SIZE
    /\ Len(log[j][Len(log[j])].copyIds) = Len(outputs[j])
    /\ log[j][Len(log[j])].copyIds[1] = NewId(j, 0)

\* A generation job has failed after it logged the first batch.
FailedAfterFirstBatch ==
  \E j \in Jobs :
    /\ Generating(j) /\ pc[j] = "failed"
    /\ \E k \in 1..Len(log[j]) : log[j][k].message = "Created batch"

\* The stamp jobs that have returned
StampsDone == {j \in Jobs : pc[j] = "done"}

\* C25: when k stamp jobs have run one after another on an entity and have
\* returned, the stamps of the entity are an array of exactly k entries in
\* the order of the invocations: entry i is the stamp of job i, untouched,
\* with stamp_number i; and stamp_count is k.
C25_StampsAccumulate ==
  LET k == Cardinality(StampsDone)
      properties == entities[TargetId].properties IN
  k > 0 =>
    /\ StampsDone = 1..k
    /\ IsArray(properties.stamps)
    /\ Len(properties.stamps.arr) = k
    /\ properties.stamp_count = Num(k)
    /\ \A i \in 1..k :
         properties.stamps.arr[i] =
           [stamped_at |-> Now, stamped_by |-> AgentId, stamp_number |-> i,
            stamp_message |-> <<"Stamp #", ToString(i), " - This worker was here!">>,
            job_id |-> i]

\* Four stamp jobs have run one after another and returned, while another
\* client wrote to the entity in between.
C25_Witness ==
  /\ \A j \in Jobs : pc[j] = "done"
  /\ otherWrites > 0
  /\ entities[TargetId].properties.stamp_count = Num(4)
  /\ entities[TargetId].properties.label = Str(<<"Doc">>)

\* The place of a stage in the pipeline: start and configuration,
\* generation or reading of the existing copies, back-link, end
Rank(stage) ==
  CASE stage \in {"idle", "fetchTarget"} -> 0
    [] stage \in {"createBatch", "refetch"} -> 1
    [] stage = "fetchBatch" -> 2
    [] stage = "getTip" -> 3
    [] stage = "putUpdate" -> 4
    [] OTHER -> 5

Terminated(j) == pc[j] \in {"done", "failed"}

\* C26: a scatter job never goes back to an earlier stage and, once it has
\* returned or thrown, stays so with the outputs it has; it runs the calls
\* of one mode only (creations, tip read and update, or re-fetch and peer
\* fetches); and when every store call is answered in the end, every job
\* that was started has at some time returned or thrown.
C26_LinearPipelineTerminates ==
  /\ [][ \A j \in Jobs :
           /\ Rank(pc'[j]) >= Rank(pc[j])
           /\ Terminated(j) => (pc'[j] = pc[j] /\ outputs'[j] = outputs[j]) ]_vars
  /\ [](\A j \in Jobs :
          /\ Generating(j) => (calls[j].refetch = 0 /\ calls[j].get = {})
          /\ UsingExisting(j) =>
               (calls[j].post = {} /\ calls[j].tip = 0 /\ calls[j].put = 0)
          /\ calls[j].refetch <= 1)
  /\ <>(\A j \in Jobs : pc[j] = "idle" \/ Terminated(j))

\* A generation job has returned after two batches, a tip read and an
\* update that was applied.
C26_Witness ==
  \E j \in Jobs :
    /\ BacklinkApplied(j)
    /\ Cardinality({k \in 1..Len(log[j]) : log[j][k].message = "Created batch"}) = 2
    /\ inflight[j] = {}

\* The records in the store that are copies of the target
CopiesOfTarget ==
  {id \in DOMAIN entities :
     id[1] = "copy" /\ entities[id].properties.source_entity = IdVal(TargetId)}

\* The ids a job has returned
OutputIds(j) == {OutputId(outputs[j][k]) : k \in 1..Len(outputs[j])}

\* C27: two generation jobs on the same target, the second started while
\* the first runs or after it has returned or failed, share nothing: each
\* that has returned has returned N ids of records that exist, the ids of
\* the two are disjoint, and the store holds the records of both, 2N when
\* both have returned and those of a failed first job next to the N of the
\* second.
C27_RunsAreIndependent ==
  LET N == ConfiguredCount(entities[TargetId].properties) IN
  /\ \A j \in {1, 2} :
       pc[j] = "done" =>
         /\ Cardinality(OutputIds(j)) = N
         /\ OutputIds(j) \subseteq CopiesOfTarget
         /\ \A k \in 1..N :
              entities[OutputId(outputs[j][k])].properties.copy_index = Num(k - 1)
  /\ OutputIds(1) \cap OutputIds(2) = {}
  /\ (pc[1] = "done" /\ pc[2] = "done") => Cardinality(CopiesOfTarget) = 2 * N
  /\ pc[2] = "done" =>
       Cardinality(CopiesOfTarget) = N + Cardinality(Created(1))

\* The second job was started while the first was creating its copies, and
\* both have returned.
C27_Witness ==
  /\ pc[1] = "done" /\ pc[2] = "done"
  /\ Len(outputs[1]) = 3 /\ Len(outputs[2]) = 3
  /\ BacklinkFailure(1)
  /\ faults = 0

\* The second job has returned after the first failed part-way.
SecondRunAfterPartialFailure ==
  /\ pc[1] = "failed"
  /\ pc[2] = "done"
  /\ Created(1) # {}
  /\ Cardinality(Created(1)) < Cardinality(Created(2))

\* The peers of the has_copy relationships of a list, in its order
HasCopyPeers(rels) ==
  LET links == SelectSeq(rels, LAMBDA r : r.predicate = "has_copy") IN
  [k \in 1..Len(links) |-> links[k].peer]

BareOutputsForClassifiedPeers ==
  \E j \in Jobs :
    /\ pc[j] = "done" /\ UsingExisting(j)
    /\ target[j].properties.mix_entity_class # Bool(TRUE)
    /\ outputs[j] = << [plain |-> PeerId(1)], [plain |-> PeerId(2)] >>
    /\ entities[PeerId(1)].properties.entity_class # Undefined

\* The copy_index values of the records job j has created
CreatedIndices(j) == {entities[id].properties.copy_index.num : id \in Created(j)}

\* The batch in which a creation of job j failed
FailedBatch(j) == batchStart[j] \div BATCH_SIZE

\* C29: when a generation job has failed on a creation of batch k, the
\* records it has created have every index of the batches before k, only
\* indices of the batches up to k, and none of a later batch.
C29_PartialCopiesOfFailedJob ==
  \A j \in Jobs :
    CreationFailed(j) =>
      LET k == FailedBatch(j) IN
      /\ \A i \in 0..(k * BATCH_SIZE - 1) : i \in CreatedIndices(j)
      /\ \A i \in CreatedIndices(j) : BatchOf(i) <= k /\ i < Wanted(j)
      /\ Cardinality(Created(j)) = Cardinality(CreatedIndices(j))

\* A creation of the second batch has failed: the records of the first
\* batch are all there, with one of the second.
C29_Witness ==
  \E j \in Jobs :
    /\ CreationFailed(j)
    /\ FailedBatch(j) = 1
    /\ Cardinality(Created(j)) = BATCH_SIZE + 1
    /\ inflight[j] = {}

\* C30: once processJob has thrown because a creation failed, the set of
\* records the job has created does not change any more.
C30_NoCreationAfterFailure ==
  [][ \A j \in Jobs :
        (CreationFailed(j) /\ pc[j] = "failed") =>
          {id \in DOMAIN entities' : id[1] = "copy" /\ id[2] = j} = Created(j)
    ]_vars

\* A job has thrown on a failed creation while other creations of the
\* batch were in flight, and a record was created after that.
CreationCompletedAfterFailure ==
  \E j \in Jobs :
    /\ CreationFailed(j)
    /\ pc[j] = "failed"
    /\ \E i \in DOMAIN batchPromises[j] :
         /\ batchPromises[j][i].state = "rejected"
         /\ \E k \in DOMAIN batchPromises[j] :
              /\ k > i + MaxOvertake
              /\ NewId(j, k) \in Created(j)

\* The has_copy relationships appended to a list of relationships
Appended(old, new) == SubSeq(new, Len(old) + 1, Len(new))

\* The record id exists and carries copy_of pointing to the entity whose id
\* is source
IsCopyOf(id, source) ==
  /\ id \in DOMAIN entities
  /\ \E k \in 1..Len(entities[id].relationships) :
       /\ entities[id].relationships[k].predicate = "copy_of"
       /\ entities[id].relationships[k].peer = source

\* No has_copy relationship naming a record of a scatter job dangles
BacklinksNeverDangle ==
  \A e \in DOMAIN entities :
    \A k \in 1..Len(entities[e].relationships) :
      LET r == entities[e].relationships[k] IN
      (r.predicate = "has_copy" /\ r.peer[1] = "copy") => IsCopyOf(r.peer, e)

\* The update of job j is applied in this step
BacklinkStep(j) ==
  /\ pc[j] = "putUpdate" /\ pc'[j] = "done"
  /\ entities'[target[j].id] # entities[target[j].id]

\* What the update of job j appends names records job j has created before
BacklinkStepAddsOwnCopies ==
  \A j \in Jobs :
    BacklinkStep(j) =>
      LET added == Appended(entities[target[j].id].relationships,
                            entities'[target[j].id].relationships) IN
      \A k \in 1..Len(added) :
        /\ added[k].predicate = "has_copy"
        /\ added[k].peer \in Created(j)
        /\ IsCopyOf(added[k].peer, target[j].id)

\* C31: in every reachable state every has_copy relationship that a scatter
\* job has added to the target names a record that exists and carries
\* copy_of pointing back to the target, and the relationships a job adds
\* name records that this job has created before the update.
C31_BacklinksNeverDangle ==
  /\ []BacklinksNeverDangle
  /\ [][BacklinkStepAddsOwnCopies]_vars

\* Two jobs on the same target have both added their back-links
C31_Witness ==
  /\ BacklinkApplied(1) /\ BacklinkApplied(2)
  /\ Len(BackLinks(1)) > 0 /\ Len(BackLinks(2)) > 0

\* A record a job created exists although the target has no has_copy
\* relationship naming it
CopyWithoutBacklink ==
  \E j \in Jobs :
    /\ pc[j] = "done"
    /\ \E id \in Created(j) :
         \A k \in 1..Len(entities[TargetOf(j)].relationships) :
           entities[TargetOf(j)].relationships[k].peer # id

\* C32: every has_copy relationship the back-link update of a job has added
\* carries as peer_label the label property stored on the record it names,
\* in whatever order the creations of a batch completed.
C32_PeerLabelIsCopyLabel ==
  \A j \in Jobs :
    BacklinkApplied(j) =>
      \A k \in 1..Len(BackLinks(j)) :
        BackLinks(j)[k].peer_label = entities[BackLinks(j)[k].peer].properties.label

\* The back-links of two batches are in place, a later creation having
\* completed before an earlier one
C32_Witness ==
  /\ BacklinkApplied(1)
  /\ reordered[1]
  /\ Len(BackLinks(1)) > BATCH_SIZE

\* The stamps array of the entity, empty when it has none
StampsOf(id) ==
  IF IsArray(entities[id].properties.stamps)
    THEN entities[id].properties.stamps.arr ELSE << >>

\* The stamps the entity had before any job
InitialStamps ==
  Len(SelectSeq(StampsOf(TargetId), LAMBDA s : s.job_id = 0))

\* The stamp jobs that have returned
Stamped == {j \in Jobs : pc[j] = "done"}

\* C33: whatever the interleaving of stamp jobs on the same entity, every
\* job that has returned has its stamp in the stamps array of the entity,
\* and the array has one entry per returned job besides those it started
\* with.
C33_NoStampLost ==
  /\ \A j \in Stamped :
       \E k \in 1..Len(StampsOf(TargetId)) : StampsOf(TargetId)[k].job_id = j
  /\ \A k \in 1..Len(StampsOf(TargetId)) :
       StampsOf(TargetId)[k].job_id \in Stamped \cup {0}
  /\ Cardinality({k \in 1..Len(StampsOf(TargetId)) :
                    StampsOf(TargetId)[k].job_id # 0}) = Cardinality(Stamped)

\* Two jobs have returned and the array holds the stamp of one of them only
StampOverwritten ==
  \E j1, j2 \in Stamped :
    /\ j1 # j2
    /\ \E k \in 1..Len(StampsOf(TargetId)) : StampsOf(TargetId)[k].job_id = j2
    /\ \A k \in 1..Len(StampsOf(TargetId)) : StampsOf(TargetId)[k].job_id # j1

\* C34: for an entity whose stamps are absent or well-formed at first, in
\* every reachable state and under any interleaving of stamp jobs, the
\* entity either has never been stamped or has stamp_count equal to the
\* length of its stamps array and stamp_number = i on its i-th stamp.
C34_StampsWellFormed ==
  LET p == entities[TargetId].properties IN
  IF IsArray(p.stamps)
    THEN /\ p.stamp_count = Num(Len(p.stamps.arr))
         /\ \A i \in 1..Len(p.stamps.arr) : p.stamps.arr[i].stamp_number = i
    ELSE /\ p.stamps = Undefined /\ p.stamp_count = Undefined
         /\ Stamped = {}

\* Jobs that ran at the same time have left more than one stamp, and the
\* update of one job was rejected for its stale tip
C34_Witness ==
  /\ Cardinality(Stamped) >= 2
  /\ Len(StampsOf(TargetId)) >= 3
  /\ faults = 0
  /\ \E j \in Jobs : pc[j] = "failed" /\ calls[j].put = 1

\* A stamp job is at its tip read or at its update
AtStampUpdate(j) == pc[j] \in {"stampTip", "stampPut"}

\* A stamp job that fails at its tip read or at its update throws with no
\* output and without touching the entity; one that returns has just had
\* its stamp written as the last of the array and returns the target alone
StampUpdateStep ==
  \A j \in Jobs :
    /\ (AtStampUpdate(j) /\ pc'[j] = "failed") =>
         /\ outputs'[j] = << >>
         /\ entities' = entities
    /\ (AtStampUpdate(j) /\ pc'[j] = "done") =>
         /\ pc[j] = "stampPut"
         /\ outputs'[j] = << [plain |-> target[j].id] >>
         /\ LET s == entities'[target[j].id].properties.stamps.arr IN
            /\ s[Len(s)].job_id = j
            /\ entities'[target[j].id].properties.stamp_count = Num(Len(s))

\* What a stamp job has returned: nothing when it threw, the target when it
\* succeeded
StampOutputs ==
  \A j \in Jobs :
    /\ pc[j] \notin {"done"} => outputs[j] = << >>
    /\ pc[j] = "done" => outputs[j] = << [plain |-> TargetOf(j)] >>

\* C35: a stamp job whose tip read fails or whose conditional update is
\* rejected throws, returns no output and leaves stamps and stamp_count of
\* the entity as they were; a stamp job that succeeds returns exactly one
\* output, the id of its target.
C35_StampUpdateIsFatal ==
  /\ []StampOutputs
  /\ [][StampUpdateStep]_vars

\* One job failed at its tip read, one had its update rejected for a stale
\* tip, one succeeded
C35_Witness ==
  \E a, b, c \in Jobs :
    /\ pc[a] = "failed" /\ calls[a].tip = 1 /\ calls[a].put = 0
    /\ pc[b] = "failed" /\ calls[b].put = 1 /\ faults = 1
    /\ pc[c] = "done"

\* processJob of job j has not taken a step
NotRun(j) ==
  /\ log[j] = << >> /\ outputs[j] = << >> /\ calls[j] = NoCalls
  /\ Created(j) = {}

\* The acceptance response is there from the moment the job is accepted,
\* while processJob runs and after it has returned or thrown
AcceptedIsAnswered ==
  \A j \in Jobs :
    IF pc[j] = "idle" THEN response[j] = NoResponse
                      ELSE response[j] = AcceptResponse(j)

\* The response is returned in the step that accepts the job, before
\* processJob has taken a step, and is never changed afterwards
AnsweredBeforeRun ==
  \A j \in Jobs :
    /\ (response[j] = NoResponse /\ response'[j] # NoResponse) =>
         /\ pc[j] = "idle" /\ pc'[j] = "fetchTarget"
         /\ NotRun(j)'
    /\ response[j] # NoResponse => response'[j] = response[j]

\* C36: POST /process returns the acceptance response of the job without
\* waiting for processJob: the response is returned when the job is
\* accepted, processJob runs afterwards, and the response is the same
\* whether processJob later returns or throws.
C36_AcceptedWithoutWaiting ==
  /\ []AcceptedIsAnswered
  /\ [][AnsweredBeforeRun]_vars

\* Of two accepted jobs one has returned and the other has thrown
C36_Witness ==
  /\ pc[1] = "done" /\ pc[2] = "failed"
  /\ response[1] = AcceptResponse(1) /\ response[2] = AcceptResponse(2)

====
